---- MODULE Spec2Model ----
(***************************************************************************)
(* People_Tracking_System: the line-crossing counter (counter.py) driven   *)
(* by its callers (main.py, gui_app.py).                                   *)
(*                                                                         *)
(* State of one PeopleCounter instance, one action per method and per GUI  *)
(* settings mutator.  The history variables (last, ret, obs, lost,         *)
(* flips_in, flips_out) record the calls made so far; the counter's own    *)
(* state never depends on them.                                            *)
(*                                                                         *)
(*   Spec              every method and every settings mutator             *)
(*   SpecHistory       observations, pruning, reset and moves of the line, *)
(*                     with the previous observation of each identity kept *)
(*   SpecFixed         observations, pruning and reset under a line        *)
(*                     configuration that never changes, side flips counted*)
(*   SpecImproved      ImprovedTracker.update over frames of detections    *)
(*   SpecPipeline      one frame cycle of main.py / gui_app.py as one step,*)
(*                     next to the GUI handlers                            *)
(*   SpecTrackers      ImprovedTracker and the fallback tracker side by side*)
(*   SpecDetector      frame cycles whose detector call may raise          *)
(*   SpecEnhanced      EnhancedPeopleCountingSystem.process_frame          *)
(*   SpecSteps         the frame cycle statement by statement, interleaved *)
(*                     with the handlers the event loop can dispatch       *)
(*   SpecFromSettings  a counter built from the saved settings             *)
(*   SpecBoth          PeopleCounter and LineCounter shown the same track  *)
(*   SpecSettled       ImprovedTracker.update on a tracker whose history of*)
(*                     positions is at its limit                           *)
(*   SpecCost          enhanced_distance asked for the detections of a frame*)
(*   SpecSimilarity    size_similarity on pairs of sizes                   *)
(*   SpecLive          ImprovedTracker.update in a session that goes on,   *)
(*                     with weak fairness of the update                    *)
(***************************************************************************)
EXTENDS Integers, FiniteSets, Sequences, TLC

\* ---------------------------------------------------------------- bounds
NumIds == 2          \* identities 1..NumIds are handed to the counter
MaxCount == 2        \* check_crossing is explored while both counters stay <= MaxCount
MaxDisappeared == 1  \* the max_disappeared an ImprovedTracker is constructed with
MaxObjects == 3      \* ImprovedTracker.update is explored while next_object_id <= MaxObjects
MaxFrames == 3       \* tracker updates explored per run
MaxAge == 1          \* the max_age a fallback MultiObjectTracker is constructed with

\* ------------------------------------------------------ program constants
MainLine == 240      \* line position used by main() and the GUI default
DefaultConfidence == 4  \* PersonDetector(confidence=0.4), in tenths
max_distance == 150  \* ImprovedTracker(max_disappeared=60, max_distance=150)
HistoryLimit == 10   \* object_history keeps the last 10 positions
ConfThreshold == 3   \* EnhancedPeopleCountingSystem(conf_threshold=0.3), in tenths

Ids == 1..NumIds

\* The GUI's direction combo box holds exactly these two strings.
Directions == {"horizontal", "vertical"}

\* Line positions explored: the main-loop value and the next slider step.
LinePositions == {MainLine, MainLine + 1}

\* The capacity spin box ranges from 1.  Capacities explored: the smallest,
\* which MaxCount people exceed, and MaxCount, which they only reach.
Capacities == {1, MaxCount}

\* One-axis extents (lo, hi) of the bounding boxes explored.  Their
\* midpoints are 239, 240.5 and 241: before, on (after truncation) and past
\* MainLine, one of them fractional so that the integer truncation of the
\* centroid matters.
Spans == <<<<MainLine - 3, MainLine + 1>>,
           <<MainLine - 2, MainLine + 3>>,
           <<MainLine, MainLine + 2>>>>

\* Bounding boxes (x1, y1, x2, y2) with x2 > x1 and y2 > y1: centroids
\* (239, 240), (240, 241) and (241, 239), so cx # cy in each of them.
Boxes == {<<Spans[k][1], Spans[(k % 3) + 1][1], Spans[k][2], Spans[(k % 3) + 1][2]>> :
            k \in 1..3}

VARIABLES
    line_position,   \* PeopleCounter.line_position
    direction,       \* PeopleCounter.direction
    count_in,        \* PeopleCounter.count_in
    count_out,       \* PeopleCounter.count_out
    track_memory,    \* PeopleCounter.track_memory : id -> last coordinate on the crossing axis
    track_states,    \* PeopleCounter.track_states : id -> last side
    max_capacity,    \* PeopleCounter.max_capacity
    confidence,      \* PersonDetector.confidence, in tenths (the GUI slider's value)
    max_age,         \* MultiObjectTracker.max_age (simple fallback)
    next_id,         \* MultiObjectTracker.next_id (simple fallback)
    tracks,          \* MultiObjectTracker.tracks : id -> [bbox, age] (simple fallback)
    max_disappeared, \* ImprovedTracker.max_disappeared
    next_object_id,  \* ImprovedTracker.next_object_id
    objects,         \* ImprovedTracker.objects : id -> centroid
    disappeared,     \* ImprovedTracker.disappeared : id -> frames without a match
    object_history,  \* ImprovedTracker.object_history : id -> list of centroids
    object_velocities, \* ImprovedTracker.object_velocities : id -> velocity
    object_sizes,    \* ImprovedTracker.object_sizes : id -> (width, height)
    line_counter,    \* EnhancedPeopleCountingSystem.line_counter: <<>> for None, else
                     \*   <<the LineCounter object>>
    main_thread,     \* where the thread running the frame cycles and the handlers is:
                     \*   in its loop or inside a cycle, which tracked objects the
                     \*   cycle still has to check, the dialog it has open and
                     \*   (history) how many frames had been tracked when it opened
    last,            \* history: the call that produced this state
    ret,             \* history: what that call returned (<<>> for None)
    obs,             \* history: id -> bbox of its latest check_crossing, kept while the
                     \*   identity was neither pruned nor reset and the line was not changed
    lost,            \* history: id -> side of its last observation before it was pruned
    flips_in,        \* history: flips first side -> second side between consecutive observations
    flips_out,       \* history: flips second side -> first side between consecutive observations
    frames,          \* history: tracker updates made so far
    registered,      \* history: the identities each tracker has handed out so far
    steady,          \* history: whether every ImprovedTracker frame so far brought one
                     \*   detection of one size, displaced by one step, and that step
    unmatched        \* history: id -> consecutive ImprovedTracker updates that gave it no detection

counterVars == <<line_position, direction, count_in, count_out,
                 track_memory, track_states, max_capacity>>
configVars == <<line_position, direction, max_capacity>>
simpleVars == <<next_id, tracks>>
improvedVars == <<next_object_id, objects, disappeared, object_history,
                  object_velocities, object_sizes>>
trackingVars == <<confidence, max_age, next_id, tracks, max_disappeared,
                  next_object_id, objects, disappeared, object_history,
                  object_velocities, object_sizes, line_counter, main_thread,
                  frames, registered, steady, unmatched>>
vars == <<line_position, direction, count_in, count_out, track_memory,
          track_states, max_capacity, confidence, max_age, next_id, tracks,
          max_disappeared, next_object_id, objects, disappeared, object_history,
          object_velocities, object_sizes, line_counter, main_thread,
          last, ret, obs, lost,
          flips_in, flips_out, frames, registered, steady, unmatched>>

\* --------------------------------------------------------------- helpers
\* Python int(n / 2): true division, then truncation toward zero.
IntHalf(n) == IF n >= 0 THEN n \div 2 ELSE -((-n) \div 2)

\* cx, cy = int((x1 + x2) / 2), int((y1 + y2) / 2)
Centroid(bbox) == <<IntHalf(bbox[1] + bbox[3]), IntHalf(bbox[2] + bbox[4])>>

\* current_pos = cy if self.direction == "horizontal" else cx
current_pos_of(dir, c) == IF dir = "horizontal" THEN c[2] ELSE c[1]

\* Mutant of current_state_of: the comparison is <= instead of <, so a
\* centroid exactly on the line is 'above' / 'left'.
current_state_of_OnLineFirst(dir, line, c) ==
    IF dir = "horizontal"
    THEN (IF c[2] <= line THEN "above" ELSE "below")
    ELSE (IF c[1] <= line THEN "left" ELSE "right")

\* The side check_crossing computes for a centroid c = (cx, cy).
current_state_of(dir, line, c) ==
    IF dir = "horizontal"
    THEN (IF c[2] < line THEN "above" ELSE "below")
    ELSE (IF c[1] < line THEN "left" ELSE "right")

\* self.track_states.get(track_id)
prev_state_of(states, track_id) ==
    IF track_id \in DOMAIN states THEN states[track_id] ELSE "None"

\* Mutant of EntersOn: any arrival on the second side counts, whatever the
\* previous side.
EntersOn_AnyArrival(dir, prev_state, current_state) ==
    IF dir = "horizontal"
    THEN current_state = "below"
    ELSE current_state = "right"

\* The branch of check_crossing that does count_in += 1.
EntersOn(dir, prev_state, current_state) ==
    IF dir = "horizontal"
    THEN prev_state = "above" /\ current_state = "below"
    ELSE prev_state = "left" /\ current_state = "right"

\* Mutant of ExitsOn: the elif repeats the condition of the if, so it never fires.
ExitsOn_CopiedCondition(dir, prev_state, current_state) ==
    IF dir = "horizontal"
    THEN prev_state = "above" /\ current_state = "below"
    ELSE prev_state = "left" /\ current_state = "right"

\* The elif branch of check_crossing that does count_out += 1.
ExitsOn(dir, prev_state, current_state) ==
    IF dir = "horizontal"
    THEN prev_state = "below" /\ current_state = "above"
    ELSE prev_state = "right" /\ current_state = "left"

\* d[k] = v on a dictionary modelled as a function.
DictSet(d, k, v) == [x \in (DOMAIN d) \cup {k} |-> IF x = k THEN v ELSE d[x]]

\* The dictionary d without the keys in ks.
DictDel(d, ks) == [x \in (DOMAIN d) \ ks |-> d[x]]

EmptyDict == [x \in {} |-> 0]

\* The elements of a list.
SeqRange(s) == {s[k] : k \in 1..Len(s)}

\* A call record: the method; its track_id (0 when it has none); its bbox
\* (<<>> when it has none); its active_track_ids ({} when it has none);
\* whether the counter held something for the call to work on (state of
\* track_id for check_crossing, anything to clear for reset_counts); and how
\* the observation relates to the identity's previous one ("" when not
\* recorded).
Call(op, id, bbox, ids, had, kind) ==
    [op |-> op, id |-> id, bbox |-> bbox, ids |-> ids, had |-> had, kind |-> kind]

\* A call without arguments.
Plain(op) == Call(op, 0, <<>>, {}, FALSE, "")

\* ------------------------------------------- PeopleCounter, as functions
\* The counter object as a record; each method below maps the object before
\* the call to the object after it.
Self == [line_position |-> line_position, direction |-> direction,
         count_in |-> count_in, count_out |-> count_out,
         track_memory |-> track_memory, track_states |-> track_states,
         max_capacity |-> max_capacity]

\* Mutant of FirstObservation: an identity without a previous side is taken
\* to come from the first side, so a first observation past the line counts.
FirstObservation_AssumesFirstSide(self, track_id, bbox) ==
    LET c == Centroid(bbox)
        current_state == current_state_of(self.direction, self.line_position, c)
    IN [self EXCEPT
        !.count_in = IF current_state \in {"below", "right"} THEN @ + 1 ELSE @,
        !.track_memory = DictSet(@, track_id, current_pos_of(self.direction, c)),
        !.track_states = DictSet(@, track_id, current_state)]

\* check_crossing, track_id not in track_memory: store position and side, return.
FirstObservation(self, track_id, bbox) ==
    LET c == Centroid(bbox) IN
    [self EXCEPT
        !.track_memory = DictSet(@, track_id, current_pos_of(self.direction, c)),
        !.track_states = DictSet(@, track_id,
                             current_state_of(self.direction, self.line_position, c))]

\* Mutant of NextObservation: the final overwrite of the stored side is
\* missing, so the side of the first observation stays.
NextObservation_KeepsSide(self, track_id, bbox) ==
    LET c == Centroid(bbox)
        prev_state == prev_state_of(self.track_states, track_id)
        current_state == current_state_of(self.direction, self.line_position, c)
        enters == EntersOn(self.direction, prev_state, current_state)
        exits == ~enters /\ ExitsOn(self.direction, prev_state, current_state)
    IN [self EXCEPT
        !.count_in = IF enters THEN @ + 1 ELSE @,
        !.count_out = IF exits THEN @ + 1 ELSE @,
        !.track_memory = DictSet(@, track_id, current_pos_of(self.direction, c))]

\* Mutant of NextObservation: an exit is booked by taking one off count_in.
NextObservation_ExitDecrements(self, track_id, bbox) ==
    LET c == Centroid(bbox)
        prev_state == prev_state_of(self.track_states, track_id)
        current_state == current_state_of(self.direction, self.line_position, c)
        enters == EntersOn(self.direction, prev_state, current_state)
        exits == ~enters /\ ExitsOn(self.direction, prev_state, current_state)
    IN [self EXCEPT
        !.count_in = IF enters THEN @ + 1 ELSE IF exits THEN @ - 1 ELSE @,
        !.track_memory = DictSet(@, track_id, current_pos_of(self.direction, c)),
        !.track_states = DictSet(@, track_id, current_state)]

\* check_crossing, track_id in track_memory: compare sides, count, overwrite.
NextObservation(self, track_id, bbox) ==
    LET c == Centroid(bbox)
        prev_state == prev_state_of(self.track_states, track_id)
        current_state == current_state_of(self.direction, self.line_position, c)
        enters == EntersOn(self.direction, prev_state, current_state)
        exits == ~enters /\ ExitsOn(self.direction, prev_state, current_state)
    IN [self EXCEPT
        !.count_in = IF enters THEN @ + 1 ELSE @,
        !.count_out = IF exits THEN @ + 1 ELSE @,
        !.track_memory = DictSet(@, track_id, current_pos_of(self.direction, c)),
        !.track_states = DictSet(@, track_id, current_state)]

\* PeopleCounter.check_crossing(track_id, bbox)
check_crossing(self, track_id, bbox) ==
    IF track_id \notin DOMAIN self.track_memory
    THEN FirstObservation(self, track_id, bbox)
    ELSE NextObservation(self, track_id, bbox)

\* Mutant of cleanup_lost_tracks: every stored track is taken for lost.
cleanup_lost_tracks_ForgetsActive(self, active_track_ids) ==
    LET lost_tracks == DOMAIN self.track_memory IN
    [self EXCEPT
        !.track_memory = DictDel(@, lost_tracks),
        !.track_states = DictDel(@, lost_tracks)]

\* Mutant of cleanup_lost_tracks: the lost tracks are removed from
\* track_memory only, their sides stay behind.
cleanup_lost_tracks_MemoryOnly(self, active_track_ids) ==
    LET lost_tracks == (DOMAIN self.track_memory) \ active_track_ids IN
    [self EXCEPT !.track_memory = DictDel(@, lost_tracks)]

\* PeopleCounter.cleanup_lost_tracks(active_track_ids)
cleanup_lost_tracks(self, active_track_ids) ==
    LET lost_tracks == (DOMAIN self.track_memory) \ active_track_ids IN
    [self EXCEPT
        !.track_memory = DictDel(@, lost_tracks),
        !.track_states = DictDel(@, lost_tracks)]

\* PeopleCounter.get_counts()
get_counts(self) == <<self.count_in, self.count_out>>

\* Mutant of get_current_inside: the difference without the clamp.
get_current_inside_Unclamped(self) == self.count_in - self.count_out

\* PeopleCounter.get_current_inside(): max(0, count_in - count_out)
get_current_inside(self) ==
    IF self.count_in - self.count_out > 0 THEN self.count_in - self.count_out ELSE 0

\* Mutant of is_over_capacity: >= instead of >.
is_over_capacity_AtCapacity(self) ==
    LET current_inside == get_current_inside(self) IN
    <<current_inside >= self.max_capacity, current_inside>>

\* PeopleCounter.is_over_capacity()
is_over_capacity(self) ==
    LET current_inside == get_current_inside(self) IN
    <<current_inside > self.max_capacity, current_inside>>

\* Mutant of reset_counts: the side map is not cleared.
reset_counts_KeepsStates(self) ==
    [self EXCEPT !.count_in = 0, !.count_out = 0, !.track_memory = EmptyDict]

\* PeopleCounter.reset_counts()
reset_counts(self) ==
    [self EXCEPT !.count_in = 0, !.count_out = 0,
                 !.track_memory = EmptyDict, !.track_states = EmptyDict]

\* PeopleCounterApp.update_line_position
update_line_position(self, v) == [self EXCEPT !.line_position = v]

\* Mutant of update_direction: the new orientation drops what the counter
\* stored under the old one.
update_direction_ClearsStates(self, d) ==
    [self EXCEPT !.direction = d, !.track_memory = EmptyDict, !.track_states = EmptyDict]

\* PeopleCounterApp.update_direction
update_direction(self, d) == [self EXCEPT !.direction = d]

\* PeopleCounterApp.update_max_capacity
update_max_capacity(self, v) == [self EXCEPT !.max_capacity = v]

\* The object after a call becomes the next state.
Becomes(self) ==
    /\ line_position' = self.line_position
    /\ direction' = self.direction
    /\ count_in' = self.count_in
    /\ count_out' = self.count_out
    /\ track_memory' = self.track_memory
    /\ track_states' = self.track_states
    /\ max_capacity' = self.max_capacity

\* ------------------------------------------ ImprovedTracker, as functions
\* 10 ** e
RECURSIVE Pow10(_)
Pow10(e) == IF e = 0 THEN 1 ELSE 10 * Pow10(e - 1)

\* Python int(a / b) for b > 0: truncation toward zero.
TruncDiv(a, b) == IF a >= 0 THEN a \div b ELSE -((-a) \div b)

RECURSIVE GCD(_, _)
GCD(a, b) == IF b = 0 THEN a ELSE GCD(b, a % b)

MinOf(a, b) == IF a <= b THEN a ELSE b

MaxOf(a, b) == IF a >= b THEN a ELSE b

\* A velocity (vx, vy) is held exactly as <<nx, ny, e>>: vx = nx / 10^e and
\* vy = ny / 10^e, with e as small as the value allows.
ZeroVelocity == <<0, 0, 0>>

RECURSIVE Normal(_)
Normal(v) ==
    IF v[3] > 0 /\ v[1] % 10 = 0 /\ v[2] % 10 = 0
    THEN Normal(<<v[1] \div 10, v[2] \div 10, v[3] - 1>>)
    ELSE v

\* The keys of a dictionary in insertion order; identities are inserted in
\* ascending order.
RECURSIVE KeysOf(_)
KeysOf(ids) ==
    IF ids = {} THEN <<>>
    ELSE LET k == CHOOSE x \in ids : \A y \in ids : x <= y
         IN <<k>> \o KeysOf(ids \ {k})

\* The tracker object as a record; each method below maps the object before
\* the call to the object after it.
Tracker == [max_disappeared |-> max_disappeared,
            next_object_id |-> next_object_id, objects |-> objects,
            disappeared |-> disappeared, object_history |-> object_history,
            object_velocities |-> object_velocities, object_sizes |-> object_sizes]

\* Mutant of register: the next identity is the number of live objects, as
\* if identities were slots to be refilled.
register_NextIsObjectCount(t, centroid, bbox_size) ==
    [t EXCEPT
        !.objects = DictSet(@, t.next_object_id, centroid),
        !.disappeared = DictSet(@, t.next_object_id, 0),
        !.object_history = DictSet(@, t.next_object_id, <<centroid>>),
        !.object_velocities = DictSet(@, t.next_object_id, ZeroVelocity),
        !.object_sizes = DictSet(@, t.next_object_id, bbox_size),
        !.next_object_id = Cardinality((DOMAIN t.objects) \cup {t.next_object_id})]

\* ImprovedTracker.register(centroid, bbox_size); bbox_size is always a pair here.
register_KeepsNoSize(t, centroid, bbox_size) ==
    [t EXCEPT
        !.objects = DictSet(@, t.next_object_id, centroid),
        !.disappeared = DictSet(@, t.next_object_id, 0),
        !.object_history = DictSet(@, t.next_object_id, <<centroid>>),
        !.object_velocities = DictSet(@, t.next_object_id, ZeroVelocity),
        !.object_sizes = DictSet(@, t.next_object_id, <<0, 0>>),
        !.next_object_id = @ + 1]

register(t, centroid, bbox_size) ==
    [t EXCEPT
        !.objects = DictSet(@, t.next_object_id, centroid),
        !.disappeared = DictSet(@, t.next_object_id, 0),
        !.object_history = DictSet(@, t.next_object_id, <<centroid>>),
        !.object_velocities = DictSet(@, t.next_object_id, ZeroVelocity),
        !.object_sizes = DictSet(@, t.next_object_id, bbox_size),
        !.next_object_id = @ + 1]

\* Mutant of deregister: the size of the removed identity is left behind.
deregister_KeepsSize(t, object_id) ==
    [t EXCEPT
        !.objects = DictDel(@, {object_id}),
        !.disappeared = DictDel(@, {object_id}),
        !.object_history = DictDel(@, {object_id}),
        !.object_velocities = DictDel(@, {object_id})]

\* ImprovedTracker.deregister(object_id)
deregister(t, object_id) ==
    [t EXCEPT
        !.objects = DictDel(@, {object_id}),
        !.disappeared = DictDel(@, {object_id}),
        !.object_history = DictDel(@, {object_id}),
        !.object_velocities = DictDel(@, {object_id}),
        !.object_sizes = DictDel(@, {object_id})]

\* Mutant of predict_position: the position last seen.
predict_position_LastSeen(t, object_id) == t.objects[object_id]

\* ImprovedTracker.predict_position(object_id): (int(x + vx), int(y + vy))
predict_position(t, object_id) ==
    IF object_id \notin DOMAIN t.object_velocities
    THEN t.objects[object_id]
    ELSE LET current_pos == t.objects[object_id]
             velocity == t.object_velocities[object_id]
             s == Pow10(velocity[3])
         IN <<TruncDiv(current_pos[1] * s + velocity[1], s),
              TruncDiv(current_pos[2] * s + velocity[2], s)>>

\* Mutant of calculate_velocity: the displacement itself, not smoothed.
calculate_velocity_Unsmoothed(t, object_id, new_position) ==
    IF object_id \in DOMAIN t.object_history /\ Len(t.object_history[object_id]) > 0
    THEN LET old_pos == t.object_history[object_id][Len(t.object_history[object_id])]
         IN <<new_position[1] - old_pos[1], new_position[2] - old_pos[2], 0>>
    ELSE ZeroVelocity

\* ImprovedTracker.calculate_velocity(object_id, new_position):
\* 0.7 * old velocity + 0.3 * (new_position - last history entry)
calculate_velocity(t, object_id, new_position) ==
    IF object_id \in DOMAIN t.object_history /\ Len(t.object_history[object_id]) > 0
    THEN LET old_pos == t.object_history[object_id][Len(t.object_history[object_id])]
             velocity_x == new_position[1] - old_pos[1]
             velocity_y == new_position[2] - old_pos[2]
         IN IF object_id \in DOMAIN t.object_velocities
            THEN LET old_vel == t.object_velocities[object_id]
                     s == Pow10(old_vel[3])
                 IN Normal(<<7 * old_vel[1] + 3 * velocity_x * s,
                             7 * old_vel[2] + 3 * velocity_y * s,
                             old_vel[3] + 1>>)
            ELSE <<velocity_x, velocity_y, 0>>
    ELSE ZeroVelocity

\* Mutant of size_similarity: a size without area is not told apart.
size_similarity_NoAreaCheck(size1, size2) ==
    IF size1 = <<0, 0>> \/ size2 = <<0, 0>>
    THEN <<1, 1>>
    ELSE LET area1 == size1[1] * size1[2]
             area2 == size2[1] * size2[2]
         IN <<MinOf(area1, area2), MaxOf(area1, area2)>>

\* ImprovedTracker.size_similarity(size1, size2), as the fraction <<p, q>> = p / q
size_similarity(size1, size2) ==
    IF size1 = <<0, 0>> \/ size2 = <<0, 0>>
    THEN <<1, 1>>
    ELSE LET area1 == size1[1] * size1[2]
             area2 == size2[1] * size2[2]
         IN IF area1 = 0 \/ area2 = 0
            THEN <<1, 1>>
            ELSE <<MinOf(area1, area2), MaxOf(area1, area2)>>

\* ImprovedTracker.enhanced_distance(obj_id, detection_centroid, detection_size):
\* pos_distance / size_sim, held exactly by its square <<num, den>> = num / den.
enhanced_distance(t, obj_id, detection_centroid, detection_size) ==
    LET predicted_pos == predict_position(t, obj_id)
        dx == predicted_pos[1] - detection_centroid[1]
        dy == predicted_pos[2] - detection_centroid[2]
        obj_size == IF obj_id \in DOMAIN t.object_sizes
                    THEN t.object_sizes[obj_id] ELSE <<0, 0>>
        size_sim == size_similarity(obj_size, detection_size)
        g == GCD(size_sim[2], size_sim[1])
        p == size_sim[1] \div g
        q == size_sim[2] \div g
    IN <<(dx * dx + dy * dy) * q * q, p * p>>

\* Comparisons of two distances held by their squares.
DistLess(a, b) == a[1] * b[2] < b[1] * a[2]

\* distances[row, col] <= self.max_distance
WithinMaxDistance_Strict(d) == d[1] < max_distance * max_distance * d[2]

WithinMaxDistance(d) == d[1] <= max_distance * max_distance * d[2]

\* distances[i, :] for identity obj_id, from detection j on.
RECURSIVE DistanceRow(_, _, _, _)
DistanceRow(t, obj_id, detections_with_sizes, j) ==
    IF j > Len(detections_with_sizes) THEN <<>>
    ELSE <<enhanced_distance(t, obj_id, detections_with_sizes[j][1],
                             detections_with_sizes[j][2])>>
         \o DistanceRow(t, obj_id, detections_with_sizes, j + 1)

\* distances[i:, :] for the identities object_ids and the detections given.
RECURSIVE Distances(_, _, _, _)
Distances(t, object_ids, detections_with_sizes, i) ==
    IF i > Len(object_ids) THEN <<>>
    ELSE <<DistanceRow(t, object_ids[i], detections_with_sizes, 1)>>
         \o Distances(t, object_ids, detections_with_sizes, i + 1)

\* argmin of a row from column j on, best being the argmin before j: the
\* first column holding the minimum.
RECURSIVE ArgMinFrom(_, _, _)
ArgMinFrom(row, j, best) ==
    IF j > Len(row) THEN best
    ELSE ArgMinFrom(row, j + 1, IF DistLess(row[j], row[best]) THEN j ELSE best)

\* distances.argmin(axis=1), from row i on
RECURSIVE ArgMins(_, _)
ArgMins(distances, i) ==
    IF i > Len(distances) THEN <<>>
    ELSE <<ArgMinFrom(distances[i], 2, 1)>> \o ArgMins(distances, i + 1)

\* Mutant of ArgSort: descending minimum.
RECURSIVE ArgSort_Descending(_, _)
ArgSort_Descending(mins, remaining) ==
    IF remaining = {} THEN <<>>
    ELSE LET r == CHOOSE x \in remaining :
                    \A y \in remaining :
                        \/ DistLess(mins[y], mins[x])
                        \/ (~DistLess(mins[x], mins[y]) /\ x <= y)
         IN <<r>> \o ArgSort_Descending(mins, remaining \ {r})

\* distances.min(axis=1).argsort() over the rows given: ascending minimum,
\* equal minima in row order.  mins[i] is the minimum of row i.
RECURSIVE ArgSort(_, _)
ArgSort(mins, remaining) ==
    IF remaining = {} THEN <<>>
    ELSE LET r == CHOOSE x \in remaining :
                    \A y \in remaining :
                        \/ DistLess(mins[x], mins[y])
                        \/ (~DistLess(mins[y], mins[x]) /\ x <= y)
         IN <<r>> \o ArgSort(mins, remaining \ {r})

\* Mutant of Matched: the disappeared-count is left as it was.
Matched_KeepsCount(t, object_id, new_centroid, new_size) ==
    LET history == IF object_id \in DOMAIN t.object_history
                   THEN t.object_history[object_id] ELSE <<>>
        appended == Append(history, new_centroid)
    IN [t EXCEPT
        !.objects = DictSet(@, object_id, new_centroid),
        !.object_velocities = DictSet(@, object_id,
                                  calculate_velocity(t, object_id, new_centroid)),
        !.object_history = DictSet(@, object_id,
                               IF Len(appended) > HistoryLimit
                               THEN Tail(appended) ELSE appended),
        !.object_sizes = DictSet(@, object_id, new_size)]

\* Mutant of Matched: beyond the limit the newest position is dropped.
Matched_DropsNewest(t, object_id, new_centroid, new_size) ==
    LET history == IF object_id \in DOMAIN t.object_history
                   THEN t.object_history[object_id] ELSE <<>>
        appended == Append(history, new_centroid)
    IN [t EXCEPT
        !.objects = DictSet(@, object_id, new_centroid),
        !.disappeared = DictSet(@, object_id, 0),
        !.object_velocities = DictSet(@, object_id,
                                  calculate_velocity(t, object_id, new_centroid)),
        !.object_history = DictSet(@, object_id,
                               IF Len(appended) > HistoryLimit
                               THEN history ELSE appended),
        !.object_sizes = DictSet(@, object_id, new_size)]

\* The body of the matching loop for an accepted pair: the identity takes
\* the detection's centroid and size, its disappeared-count returns to 0,
\* its velocity is smoothed and its history extended (last 10 kept).
Matched(t, object_id, new_centroid, new_size) ==
    LET history == IF object_id \in DOMAIN t.object_history
                   THEN t.object_history[object_id] ELSE <<>>
        appended == Append(history, new_centroid)
    IN [t EXCEPT
        !.objects = DictSet(@, object_id, new_centroid),
        !.disappeared = DictSet(@, object_id, 0),
        !.object_velocities = DictSet(@, object_id,
                                  calculate_velocity(t, object_id, new_centroid)),
        !.object_history = DictSet(@, object_id,
                               IF Len(appended) > HistoryLimit
                               THEN Tail(appended) ELSE appended),
        !.object_sizes = DictSet(@, object_id, new_size)]

\* Mutant of MatchLoop: a column already used is not skipped.
RECURSIVE MatchLoop_ReusesColumns(_, _, _, _, _, _, _)
MatchLoop_ReusesColumns(acc, rows, k, distances, argmins, object_ids, detections_with_sizes) ==
    IF k > Len(rows) THEN acc
    ELSE LET row == rows[k]
             col == argmins[row]
             step ==
                IF row \in acc.used_row_indices
                THEN acc
                ELSE IF WithinMaxDistance(distances[row][col])
                     THEN [t |-> Matched(acc.t, object_ids[row],
                                         detections_with_sizes[col][1],
                                         detections_with_sizes[col][2]),
                           used_row_indices |-> acc.used_row_indices \cup {row},
                           used_col_indices |-> acc.used_col_indices \cup {col},
                           assigned |-> Append(acc.assigned, <<object_ids[row], col>>)]
                     ELSE acc
         IN MatchLoop_ReusesColumns(step, rows, k + 1, distances, argmins,
                                    object_ids, detections_with_sizes)

\* for (row, col) in zip(rows, cols): the loop over rows[k..], carrying the
\* tracker and the used row and column indices.  argmins[row] is the
\* column of the row's minimum.  assigned lists, in loop order, the pairs
\* <<object_id, col>> whose body ran.
RECURSIVE MatchLoop(_, _, _, _, _, _, _)
MatchLoop(acc, rows, k, distances, argmins, object_ids, detections_with_sizes) ==
    IF k > Len(rows) THEN acc
    ELSE LET row == rows[k]
             col == argmins[row]
             step ==
                IF row \in acc.used_row_indices \/ col \in acc.used_col_indices
                THEN acc
                ELSE IF WithinMaxDistance(distances[row][col])
                     THEN [t |-> Matched(acc.t, object_ids[row],
                                         detections_with_sizes[col][1],
                                         detections_with_sizes[col][2]),
                           used_row_indices |-> acc.used_row_indices \cup {row},
                           used_col_indices |-> acc.used_col_indices \cup {col},
                           assigned |-> Append(acc.assigned, <<object_ids[row], col>>)]
                     ELSE acc
         IN MatchLoop(step, rows, k + 1, distances, argmins, object_ids,
                      detections_with_sizes)

\* Lines 131-178, the matching of one update call: the tracker after the
\* loop and the row and column indices it used.
Matching(t, detections_with_sizes) ==
    LET object_ids == KeysOf(DOMAIN t.objects)
        distances == Distances(t, object_ids, detections_with_sizes, 1)
        argmins == ArgMins(distances, 1)
        mins == [i \in 1..Len(distances) |-> distances[i][argmins[i]]]
        rows == ArgSort(mins, 1..Len(object_ids))
    IN MatchLoop([t |-> t, used_row_indices |-> {}, used_col_indices |-> {},
                  assigned |-> <<>>],
                 rows, 1, distances, argmins, object_ids, detections_with_sizes)

\* Mutant of Age: above max_disappeared the count starts again and the
\* identity stays.
Age_StartsAgain(t, object_id) ==
    LET aged == [t EXCEPT !.disappeared[object_id] = @ + 1] IN
    IF aged.disappeared[object_id] > t.max_disappeared
    THEN [t EXCEPT !.disappeared[object_id] = 0]
    ELSE aged

\* self.disappeared[object_id] += 1, deregister above max_disappeared
Age_RemovesAtThreshold(t, object_id) ==
    LET aged == [t EXCEPT !.disappeared[object_id] = @ + 1] IN
    IF aged.disappeared[object_id] >= t.max_disappeared
    THEN deregister(aged, object_id)
    ELSE aged

Age(t, object_id) ==
    LET aged == [t EXCEPT !.disappeared[object_id] = @ + 1] IN
    IF aged.disappeared[object_id] > t.max_disappeared
    THEN deregister(aged, object_id)
    ELSE aged

\* Age over the identities given, in ascending order.
RECURSIVE AgeAll(_, _)
AgeAll(t, object_ids) ==
    IF Len(object_ids) = 0 THEN t
    ELSE AgeAll(Age(t, Head(object_ids)), Tail(object_ids))

\* register over the detections at the indices given, in that order,
\* carrying the tracker and the keys the calls stored under.
RECURSIVE RegisterAll(_, _, _)
RegisterAll(acc, detections_with_sizes, cols) ==
    IF Len(cols) = 0 THEN acc
    ELSE RegisterAll([t |-> register(acc.t, detections_with_sizes[Head(cols)][1],
                                     detections_with_sizes[Head(cols)][2]),
                      registered |-> Append(acc.registered, acc.t.next_object_id)],
                     detections_with_sizes, Tail(cols))

\* Lines 180-195: unmatched rows age when rows >= columns, otherwise
\* unmatched columns are registered.  The sets of small integers are walked
\* in ascending order.
HandleUnmatched(m, object_ids, detections_with_sizes) ==
    LET unused_row_indices == KeysOf((1..Len(object_ids)) \ m.used_row_indices)
        unused_col_indices ==
            KeysOf((1..Len(detections_with_sizes)) \ m.used_col_indices)
    IN IF Len(object_ids) >= Len(detections_with_sizes)
       THEN [t |-> AgeAll(m.t, [k \in 1..Len(unused_row_indices) |->
                                   object_ids[unused_row_indices[k]]]),
             registered |-> <<>>]
       ELSE RegisterAll([t |-> m.t, registered |-> <<>>],
                        detections_with_sizes, unused_col_indices)

\* One update call: the tracker after it, the identities it matched, the
\* pairs <<object_id, col>> it assigned and the keys its register calls
\* stored under, in call order.
UpdateCall(t, detections_with_sizes) ==
    IF Len(detections_with_sizes) = 0
    THEN [t |-> AgeAll(t, KeysOf(DOMAIN t.disappeared)),
          matched |-> {}, assigned |-> <<>>, registered |-> <<>>]
    ELSE IF DOMAIN t.objects = {}
         THEN LET all == RegisterAll([t |-> t, registered |-> <<>>],
                                     detections_with_sizes,
                                     [k \in 1..Len(detections_with_sizes) |-> k])
              IN [t |-> all.t, matched |-> {}, assigned |-> <<>>,
                  registered |-> all.registered]
         ELSE LET object_ids == KeysOf(DOMAIN t.objects)
                  m == Matching(t, detections_with_sizes)
                  rest == HandleUnmatched(m, object_ids, detections_with_sizes)
              IN [t |-> rest.t,
                  matched |-> {object_ids[r] : r \in m.used_row_indices},
                  assigned |-> m.assigned,
                  registered |-> rest.registered]

\* ImprovedTracker.update(detections_with_sizes)
update(t, detections_with_sizes) == UpdateCall(t, detections_with_sizes).t

\* The tracker after a call becomes the next state.
TrackerBecomes(t) ==
    /\ next_object_id' = t.next_object_id
    /\ objects' = t.objects
    /\ disappeared' = t.disappeared
    /\ object_history' = t.object_history
    /\ object_velocities' = t.object_velocities
    /\ object_sizes' = t.object_sizes

\* --------------------------- MultiObjectTracker (fallback), as functions
\* The fallback tracker object as a record.
Simple == [max_age |-> max_age, next_id |-> next_id, tracks |-> tracks]

\* MultiObjectTracker._calculate_overlap(box1, box2): the IoU as the
\* fraction <<intersection, union>>, <<0, 1>> for 0.
calculate_overlap(box1, box2) ==
    LET x1_i == MaxOf(box1[1], box2[1])
        y1_i == MaxOf(box1[2], box2[2])
        x2_i == MinOf(box1[3], box2[3])
        y2_i == MinOf(box1[4], box2[4])
    IN IF x2_i <= x1_i \/ y2_i <= y1_i
       THEN <<0, 1>>
       ELSE LET intersection == (x2_i - x1_i) * (y2_i - y1_i)
                area1 == (box1[3] - box1[1]) * (box1[4] - box1[2])
                area2 == (box2[3] - box2[1]) * (box2[4] - box2[2])
                union == area1 + area2 - intersection
            IN IF union > 0 THEN <<intersection, union>> ELSE <<0, 1>>

\* overlap > best_overlap and overlap > 0.3
BetterOverlap(overlap, best_overlap) ==
    /\ overlap[1] * best_overlap[2] > best_overlap[1] * overlap[2]
    /\ 10 * overlap[1] > 3 * overlap[2]

\* The inner loop of _update_simple over self.tracks.items() from the k-th
\* key on: the best matching track so far (0 for None) and its overlap.
RECURSIVE BestMatch(_, _, _, _, _)
BestMatch(t, bbox, track_ids, k, best) ==
    IF k > Len(track_ids) THEN best
    ELSE LET track_id == track_ids[k]
             track_data == t.tracks[track_id]
             overlap == calculate_overlap(bbox, track_data.bbox)
         IN BestMatch(t, bbox, track_ids, k + 1,
                IF track_data.age > t.max_age THEN best
                ELSE IF BetterOverlap(overlap, best.best_overlap)
                     THEN [best_match |-> track_id, best_overlap |-> overlap]
                     ELSE best)

\* The else branch of the outer loop: a new track under next_id.
create_track(t, bbox) ==
    [t EXCEPT !.next_id = @ + 1,
              !.tracks = DictSet(@, t.next_id, [bbox |-> bbox, age |-> 0])]

\* The outer loop of _update_simple over current_detections from the j-th
\* on, carrying the tracker, matched_tracks, tracked_objects and the keys
\* of the tracks created.
RECURSIVE DetectionLoop(_, _, _)
DetectionLoop(acc, detections, j) ==
    IF j > Len(detections) THEN acc
    ELSE LET bbox == detections[j][1]
             best == BestMatch(acc.t, bbox, KeysOf(DOMAIN acc.t.tracks), 1,
                               [best_match |-> 0, best_overlap |-> <<0, 1>>])
             step ==
                IF best.best_match # 0
                THEN [t |-> [acc.t EXCEPT
                                !.tracks[best.best_match] = [bbox |-> bbox, age |-> 0]],
                      matched_tracks |-> acc.matched_tracks \cup {best.best_match},
                      tracked_objects |-> Append(acc.tracked_objects,
                                            [id |-> best.best_match, bbox |-> bbox]),
                      created |-> acc.created]
                ELSE [t |-> create_track(acc.t, bbox),
                      matched_tracks |-> acc.matched_tracks \cup {acc.t.next_id},
                      tracked_objects |-> Append(acc.tracked_objects,
                                            [id |-> acc.t.next_id, bbox |-> bbox]),
                      created |-> Append(acc.created, acc.t.next_id)]
         IN DetectionLoop(step, detections, j + 1)

\* Mutant of AgeUnmatched: a track is deleted when its age reaches max_age.
AgeUnmatched_RemovesAtThreshold(t, matched_tracks) ==
    LET stale == {track_id \in DOMAIN t.tracks :
                    track_id \notin matched_tracks
                    /\ t.tracks[track_id].age + 1 >= t.max_age}
    IN [t EXCEPT !.tracks =
            [track_id \in (DOMAIN @) \ stale |->
                IF track_id \in matched_tracks
                THEN @[track_id]
                ELSE [@[track_id] EXCEPT !.age = @ + 1]]]

\* Age unmatched tracks: age += 1, delete above max_age.
AgeUnmatched(t, matched_tracks) ==
    LET stale == {track_id \in DOMAIN t.tracks :
                    track_id \notin matched_tracks
                    /\ t.tracks[track_id].age + 1 > t.max_age}
    IN [t EXCEPT !.tracks =
            [track_id \in (DOMAIN @) \ stale |->
                IF track_id \in matched_tracks
                THEN @[track_id]
                ELSE [@[track_id] EXCEPT !.age = @ + 1]]]

\* MultiObjectTracker._update_simple(frame, detections): the tracker after
\* the call, the tracked_objects it returns and the keys of the tracks it
\* created, in order.
update_simple(t, detections) ==
    LET looped == DetectionLoop([t |-> t, matched_tracks |-> {},
                                 tracked_objects |-> <<>>, created |-> <<>>],
                                detections, 1)
    IN [t |-> AgeUnmatched(looped.t, looped.matched_tracks),
        tracked_objects |-> looped.tracked_objects,
        created |-> looped.created]

\* ------------------------------------- the detector and the frame cycle
\* PersonDetector.detect(frame) on what the network reports for the frame,
\* a list of (class, confidence in tenths, box): persons at or above the
\* threshold with a valid box, in order.
RECURSIVE detect(_, _, _)
detect(threshold, boxes, k) ==
    IF k > Len(boxes) THEN <<>>
    ELSE LET box == boxes[k]
             xyxy == box[3]
         IN (IF box[1] = 0 /\ box[2] >= threshold /\ xyxy[3] > xyxy[1] /\ xyxy[4] > xyxy[2]
             THEN <<<<xyxy, box[2]>>>>
             ELSE <<>>)
            \o detect(threshold, boxes, k + 1)

\* for obj in tracked_objects: counter.check_crossing(obj["id"], obj["bbox"])
RECURSIVE CheckAll(_, _, _)
CheckAll(self, tracked_objects, k) ==
    IF k > Len(tracked_objects) THEN self
    ELSE CheckAll(check_crossing(self, tracked_objects[k].id, tracked_objects[k].bbox),
                  tracked_objects, k + 1)

\* The application's objects as one record.
App == [detector |-> [confidence |-> confidence], tracker |-> Simple, counter |-> Self]

\* Mutant of PersonDetector_detect: an exception leaves the detections
\* collected so far to the caller.
PersonDetector_detect_KeepsPartial(detector, results) ==
    detect(detector.confidence, results.boxes, 1)

\* PersonDetector.detect(frame) with its try/except: results.boxes is what
\* the network reports, results.raises whether the body raises before it
\* returns; the handler returns the empty list.
PersonDetector_detect(detector, results) ==
    IF results.raises THEN <<>>
    ELSE detect(detector.confidence, results.boxes, 1)

\* The rest of a turn once the detector has returned detections: track,
\* check every tracked object, prune the counter.
track_and_count(app, detections) ==
    LET tracked == update_simple(app.tracker, detections)
        active_track_ids == {tracked.tracked_objects[k].id :
                                k \in 1..Len(tracked.tracked_objects)}
        checked == CheckAll(app.counter, tracked.tracked_objects, 1)
    IN [app |-> [app EXCEPT !.tracker = tracked.t,
                            !.counter = cleanup_lost_tracks(checked, active_track_ids)],
        tracked_objects |-> tracked.tracked_objects,
        created |-> tracked.created]

\* One turn of the loop of main() / the pipeline of update_frame on a frame
\* the detector does not fail on.
frame_cycle(app, boxes) ==
    track_and_count(app, detect(app.detector.confidence, boxes, 1))

\* The same turn on results the detector may fail on.
results_cycle(app, results) ==
    track_and_count(app, PersonDetector_detect(app.detector, results))

\* Mutant of app_reset_counts: the reset also starts a new tracker.
app_reset_counts_NewTracker(app) ==
    [app EXCEPT !.counter = reset_counts(@),
                !.tracker = [@ EXCEPT !.next_id = 1, !.tracks = EmptyDict]]

\* Key 'r' in main(), the confirmed Reset button of the GUI.
app_reset_counts(app) == [app EXCEPT !.counter = reset_counts(@)]

\* PeopleCounterApp.update_max_capacity
app_update_max_capacity(app, v) == [app EXCEPT !.counter = update_max_capacity(@, v)]

\* PeopleCounterApp.update_line_position
app_update_line_position(app, v) == [app EXCEPT !.counter = update_line_position(@, v)]

\* PeopleCounterApp.update_direction
app_update_direction(app, d) == [app EXCEPT !.counter = update_direction(@, d)]

\* PeopleCounterApp.update_confidence
app_update_confidence(app, v) == [app EXCEPT !.detector.confidence = v]

\* The application after a handler becomes the next state.
AppBecomes(app) ==
    /\ Becomes(app.counter)
    /\ confidence' = app.detector.confidence
    /\ next_id' = app.tracker.next_id
    /\ tracks' = app.tracker.tracks

\* ------------------------------------------------- the sides of the spec
\* Side of a bbox as the specification words it: horizontal line, 'above'
\* iff cy < line else 'below'; vertical line, 'left' iff cx < line else
\* 'right'.
SpecSideName(dir, line, bbox) ==
    IF dir = "horizontal"
    THEN (IF Centroid(bbox)[2] < line THEN "above" ELSE "below")
    ELSE (IF Centroid(bbox)[1] < line THEN "left" ELSE "right")

\* "first" is above / left, "second" is below / right.
SpecSide(dir, line, bbox) ==
    IF SpecSideName(dir, line, bbox) \in {"above", "left"} THEN "first" ELSE "second"

\* The coordinate along the crossing axis.
SpecAxis(dir, bbox) ==
    IF dir = "horizontal" THEN Centroid(bbox)[2] ELSE Centroid(bbox)[1]

\* How an observation of track_id at bbox relates to what the history holds.
ObservationKind(track_id, bbox) ==
    IF track_id \in DOMAIN obs
    THEN LET s1 == SpecSide(direction, line_position, obs[track_id])
             s2 == SpecSide(direction, line_position, bbox)
         IN IF s1 = "first" /\ s2 = "second" THEN "flip_in"
            ELSE IF s1 = "second" /\ s2 = "first" THEN "flip_out"
            ELSE IF SpecAxis(direction, obs[track_id]) # SpecAxis(direction, bbox)
                 THEN "within"
                 ELSE "same"
    ELSE IF track_id \in DOMAIN lost
         THEN (IF lost[track_id] = SpecSide(direction, line_position, bbox)
               THEN "lost_same" ELSE "lost_opposite")
         ELSE "new"

\* The same, telling only the flips apart.
FlipKind(track_id, bbox) ==
    IF ObservationKind(track_id, bbox) \in {"flip_in", "flip_out"}
    THEN ObservationKind(track_id, bbox)
    ELSE ""

\* ------------------------------------------------------------------ Init
\* PersonDetector.__init__ with the confidence its callers pass,
\* MultiObjectTracker.__init__ on its fallback branch and
\* ImprovedTracker.__init__: nothing tracked yet.
\* The thread between two callbacks (GUI) or between two turns of the
\* loop (main), no dialog open.
InLoop == [at |-> "loop", tracked_objects |-> <<>>, k |-> 0, dialog |-> "none",
           opened_at |-> 0]

InitTracking ==
    /\ confidence = DefaultConfidence
    /\ next_id = 1
    /\ tracks = EmptyDict
    /\ next_object_id = 0
    /\ objects = EmptyDict
    /\ disappeared = EmptyDict
    /\ object_history = EmptyDict
    /\ object_velocities = EmptyDict
    /\ object_sizes = EmptyDict
    /\ line_counter = <<>>
    /\ main_thread = InLoop
    /\ frames = 0
    /\ registered = [improved |-> {}, simple |-> {}]
    /\ steady = [kind |-> "start", step |-> <<0, 0>>]
    /\ unmatched = EmptyDict

\* PeopleCounter.__init__ with the arguments its callers pass.
InitCounter ==
    /\ line_position \in LinePositions
    /\ direction \in Directions
    /\ max_capacity \in Capacities
    /\ count_in = 0
    /\ count_out = 0
    /\ track_memory = EmptyDict
    /\ track_states = EmptyDict
    /\ last = Plain("init")
    /\ ret = <<>>
    /\ obs = EmptyDict
    /\ lost = EmptyDict
    /\ flips_in = 0
    /\ flips_out = 0

\* The application after construction, the trackers at their largest
\* patience explored.
Init ==
    /\ InitCounter
    /\ InitTracking
    /\ max_age = MaxAge
    /\ max_disappeared = MaxDisappeared

\* ------------------------------------------------------------ the calls
\* The counter holds line-side state for track_id.
HasState(track_id) == track_id \in DOMAIN track_memory

\* The counter holds something a reset would clear.
HasAnything ==
    \/ count_in # 0
    \/ count_out # 0
    \/ DOMAIN track_memory # {}
    \/ DOMAIN track_states # {}

\* counter.check_crossing(obj["id"], obj["bbox"]), explored while the
\* counters stay within MaxCount.
CheckCrossingCall(track_id, bbox) ==
    /\ Becomes(check_crossing(Self, track_id, bbox))
    /\ count_in' <= MaxCount
    /\ count_out' <= MaxCount
    /\ ret' = <<>>

\* counter.cleanup_lost_tracks(active_track_ids)
CleanupLostTracksCall(active_track_ids) ==
    /\ Becomes(cleanup_lost_tracks(Self, active_track_ids))
    /\ ret' = <<>>

\* counter.reset_counts(): key 'r' in main(), the confirmed Reset button in the GUI
ResetCountsCall ==
    /\ Becomes(reset_counts(Self))
    /\ ret' = <<>>

\* The line slider's valueChanged handler.
UpdateLinePositionCall(v) ==
    /\ Becomes(update_line_position(Self, v))
    /\ ret' = <<>>

\* The direction combo box's currentTextChanged handler.
UpdateDirectionCall(d) ==
    /\ Becomes(update_direction(Self, d))
    /\ ret' = <<>>

\* ------------------------------------------------------ actions of Spec
CheckCrossing ==
    \E track_id \in Ids, bbox \in Boxes :
        /\ CheckCrossingCall(track_id, bbox)
        /\ UNCHANGED trackingVars
        /\ last' = Call("check_crossing", track_id, bbox, {}, HasState(track_id), "")
        /\ UNCHANGED <<obs, lost, flips_in, flips_out>>

CleanupLostTracks ==
    \E active_track_ids \in SUBSET Ids :
        /\ CleanupLostTracksCall(active_track_ids)
        /\ UNCHANGED trackingVars
        /\ last' = Plain("cleanup_lost_tracks")
        /\ UNCHANGED <<obs, lost, flips_in, flips_out>>

\* count_in, count_out = counter.get_counts()
GetCounts ==
    /\ Becomes(Self)
    /\ UNCHANGED trackingVars
    /\ last' = Plain("get_counts")
    /\ ret' = get_counts(Self)
    /\ UNCHANGED <<obs, lost, flips_in, flips_out>>

\* current_inside = counter.get_current_inside()
GetCurrentInside ==
    /\ Becomes(Self)
    /\ UNCHANGED trackingVars
    /\ last' = Plain("get_current_inside")
    /\ ret' = <<get_current_inside(Self)>>
    /\ UNCHANGED <<obs, lost, flips_in, flips_out>>

\* over_capacity, current_inside = counter.is_over_capacity()
IsOverCapacity ==
    /\ Becomes(Self)
    /\ UNCHANGED trackingVars
    /\ last' = Plain("is_over_capacity")
    /\ ret' = is_over_capacity(Self)
    /\ UNCHANGED <<obs, lost, flips_in, flips_out>>

ResetCounts ==
    /\ ResetCountsCall
    /\ UNCHANGED trackingVars
    /\ last' = Call("reset_counts", 0, <<>>, {}, HasAnything, "")
    /\ UNCHANGED <<obs, lost, flips_in, flips_out>>

UpdateLinePosition ==
    \E v \in LinePositions :
        /\ UpdateLinePositionCall(v)
        /\ UNCHANGED trackingVars
        /\ last' = Plain("update_line_position")
        /\ UNCHANGED <<obs, lost, flips_in, flips_out>>

UpdateDirection ==
    \E d \in Directions :
        /\ UpdateDirectionCall(d)
        /\ UNCHANGED trackingVars
        /\ last' = Plain("update_direction")
        /\ UNCHANGED <<obs, lost, flips_in, flips_out>>

\* The capacity spin box's valueChanged handler.
UpdateMaxCapacity ==
    \E v \in Capacities :
        /\ Becomes(update_max_capacity(Self, v))
        /\ UNCHANGED trackingVars
        /\ last' = Plain("update_max_capacity")
        /\ ret' = <<>>
        /\ UNCHANGED <<obs, lost, flips_in, flips_out>>

Next ==
    \/ CheckCrossing
    \/ CleanupLostTracks
    \/ GetCounts
    \/ GetCurrentInside
    \/ IsOverCapacity
    \/ ResetCounts
    \/ UpdateLinePosition
    \/ UpdateDirection
    \/ UpdateMaxCapacity

Spec == Init /\ [][Next]_vars

\* ----------------------------------------------- actions of SpecHistory
\* Observations, pruning, reset and moves of the line, with each identity's
\* previous observation remembered for as long as the counter's state for it
\* is continuous and the line is where it was.  The orientation is the one
\* the counter was constructed with.
HistCheckCrossing ==
    \E track_id \in Ids, bbox \in Boxes :
        /\ CheckCrossingCall(track_id, bbox)
        /\ UNCHANGED trackingVars
        /\ last' = Call("check_crossing", track_id, bbox, {}, HasState(track_id),
                      FlipKind(track_id, bbox))
        /\ obs' = DictSet(obs, track_id, bbox)
        /\ UNCHANGED <<lost, flips_in, flips_out>>

HistCleanupLostTracks ==
    \E active_track_ids \in SUBSET Ids :
        /\ CleanupLostTracksCall(active_track_ids)
        /\ UNCHANGED trackingVars
        /\ last' = Plain("cleanup_lost_tracks")
        /\ obs' = DictDel(obs, Ids \ active_track_ids)
        /\ UNCHANGED <<lost, flips_in, flips_out>>

HistResetCounts ==
    /\ ResetCountsCall
    /\ UNCHANGED trackingVars
    /\ last' = Call("reset_counts", 0, <<>>, {}, HasAnything, "")
    /\ obs' = EmptyDict
    /\ UNCHANGED <<lost, flips_in, flips_out>>

HistUpdateLinePosition ==
    \E v \in LinePositions :
        /\ UpdateLinePositionCall(v)
        /\ UNCHANGED trackingVars
        /\ last' = Plain("update_line_position")
        /\ obs' = IF v # line_position THEN EmptyDict ELSE obs
        /\ UNCHANGED <<lost, flips_in, flips_out>>

NextHistory ==
    \/ HistCheckCrossing
    \/ HistCleanupLostTracks
    \/ HistResetCounts
    \/ HistUpdateLinePosition

SpecHistory == Init /\ [][NextHistory]_vars

\* ------------------------------------------------- actions of SpecFixed
\* Observations, pruning and reset while nobody touches the settings: the
\* configuration is the one the counter was constructed with.
FixedCheckCrossing ==
    \E track_id \in Ids, bbox \in Boxes :
        LET kind == ObservationKind(track_id, bbox) IN
        /\ CheckCrossingCall(track_id, bbox)
        /\ UNCHANGED trackingVars
        /\ last' = Call("check_crossing", track_id, bbox, {}, HasState(track_id), kind)
        /\ obs' = DictSet(obs, track_id, bbox)
        /\ lost' = DictDel(lost, {track_id})
        /\ flips_in' = IF kind = "flip_in" THEN flips_in + 1 ELSE flips_in
        /\ flips_out' = IF kind = "flip_out" THEN flips_out + 1 ELSE flips_out
        /\ flips_in' <= MaxCount
        /\ flips_out' <= MaxCount

FixedCleanupLostTracks ==
    \E active_track_ids \in SUBSET Ids :
        LET pruned == (DOMAIN obs) \ active_track_ids IN
        /\ CleanupLostTracksCall(active_track_ids)
        /\ UNCHANGED trackingVars
        /\ last' = Call("cleanup_lost_tracks", 0, <<>>, active_track_ids, FALSE, "")
        /\ obs' = DictDel(obs, pruned)
        /\ lost' = [i \in (DOMAIN lost) \cup pruned |->
                      IF i \in pruned
                      THEN SpecSide(direction, line_position, obs[i])
                      ELSE lost[i]]
        /\ UNCHANGED <<flips_in, flips_out>>

FixedResetCounts ==
    /\ ResetCountsCall
    /\ UNCHANGED trackingVars
    /\ last' = Call("reset_counts", 0, <<>>, {}, HasAnything, "")
    /\ obs' = EmptyDict
    /\ lost' = EmptyDict
    /\ flips_in' = 0
    /\ flips_out' = 0

NextFixed ==
    \/ FixedCheckCrossing
    \/ FixedCleanupLostTracks
    \/ FixedResetCounts

SpecFixed == Init /\ [][NextFixed]_vars

\* ---------------------------------------------- actions of SpecImproved
\* An ImprovedTracker on its own, fed one list of detections per frame as
\* EnhancedPeopleCountingSystem.process_frame does.

\* Centroids explored: three steps of the displacement (90, 120), whose
\* length is exactly max_distance, and one centroid farther than
\* max_distance from all of them.
Points == <<<<100, 100>>, <<190, 220>>, <<280, 340>>, <<400, 100>>>>

\* Box sizes (width, height) explored: areas in the ratio 1 : 2.
Sizes == <<<<20, 40>>, <<40, 40>>>>

\* The (centroid, size) pairs explored: every centroid at the first size,
\* and the second centroid also at the second size.
Detections ==
    {<<Points[k], Sizes[1]>> : k \in 1..Len(Points)} \cup {<<Points[2], Sizes[2]>>}

\* Frames explored: no detection, one detection, two detections.
DetectionCounts == {0, 1, 2}

\* The lists of detections a frame can bring.
DetectionLists ==
    UNION {[1..n -> Detections] : n \in DetectionCounts}

\* A people_count_track.py session: it has no PeopleCounter, whose
\* variables stay as constructed.
InitImproved ==
    /\ Init
    /\ line_position = MainLine
    /\ direction = "horizontal"
    /\ max_capacity = MaxCount

\* Whether the frames up to and including this one, which brings
\* detections_with_sizes, each brought exactly one detection, all of one
\* size, each displaced from the one before by the same step of length at
\* most max_distance; and that step once two frames have fixed it.
SteadyAfter(detections_with_sizes) ==
    IF Len(detections_with_sizes) # 1 \/ steady.kind = "no"
    THEN [kind |-> "no", step |-> <<0, 0>>]
    ELSE IF steady.kind = "start"
         THEN [kind |-> "one", step |-> <<0, 0>>]
         ELSE LET before == last.dets[1]
                  now == detections_with_sizes[1]
                  step == <<now[1][1] - before[1][1], now[1][2] - before[1][2]>>
              IN IF /\ now[2] = before[2]
                    /\ step[1] * step[1] + step[2] * step[2] <= max_distance * max_distance
                    /\ (steady.kind = "step" => step = steady.step)
                 THEN [kind |-> "step", step |-> step]
                 ELSE [kind |-> "no", step |-> <<0, 0>>]

\* One update call whose result is call, explored while the identities
\* handed out stay within MaxObjects: everything but the count of frames.
ImprovedUpdateEffect(detections_with_sizes, call) ==
    /\ call.t.next_object_id <= MaxObjects
    /\ TrackerBecomes(call.t)
    /\ registered' = [registered EXCEPT !.improved = @ \cup SeqRange(call.registered)]
    /\ steady' = SteadyAfter(detections_with_sizes)
    /\ unmatched' = [id \in 0..(call.t.next_object_id - 1) |->
                       IF id \in call.matched \/ id >= next_object_id
                       THEN 0
                       ELSE MinOf(unmatched[id] + 1, max_disappeared + 1)]
    /\ UNCHANGED <<max_disappeared, max_age>>
    /\ last' = [op |-> "update", dets |-> detections_with_sizes,
                matched |-> call.matched, assigned |-> call.assigned,
                registered |-> call.registered]
    /\ ret' = call.t.objects
    /\ UNCHANGED <<counterVars, confidence, simpleVars, line_counter, main_thread,
                   obs, lost, flips_in, flips_out>>

\* One update call whose result is call.
ImprovedUpdateStep(detections_with_sizes, call) ==
    /\ ImprovedUpdateEffect(detections_with_sizes, call)
    /\ frames' = frames + 1

\* The step of one update call whose result is call.
ImprovedUpdateTo(detections_with_sizes, call) ==
    /\ frames < MaxFrames
    /\ ImprovedUpdateStep(detections_with_sizes, call)

\* tracked_objects = self.tracker.update(detections_with_sizes)
ImprovedUpdate ==
    \E detections_with_sizes \in DetectionLists :
        ImprovedUpdateTo(detections_with_sizes, UpdateCall(Tracker, detections_with_sizes))

NextImproved ==
    \/ ImprovedUpdate

SpecImproved == InitImproved /\ [][NextImproved]_vars

\* ----------------------------------------------- actions of SpecSettled
\* An ImprovedTracker that has followed one person standing still for so
\* many frames that the history of positions is about to reach, or has
\* reached, its limit.

\* The tracker after n further update calls that each bring the one
\* detection det.
RECURSIVE SettledTracker(_, _, _)
SettledTracker(t, det, n) ==
    IF n = 0 THEN t
    ELSE SettledTracker(update(t, <<det>>), det, n - 1)

\* The frames the person has stood still for.
SettledFrames == {HistoryLimit - 1, HistoryLimit}

InitSettled ==
    /\ line_position = MainLine
    /\ direction = "horizontal"
    /\ max_capacity = MaxCount
    /\ count_in = 0
    /\ count_out = 0
    /\ track_memory = EmptyDict
    /\ track_states = EmptyDict
    /\ obs = EmptyDict
    /\ lost = EmptyDict
    /\ flips_in = 0
    /\ flips_out = 0
    /\ confidence = DefaultConfidence
    /\ max_age = MaxAge
    /\ next_id = 1
    /\ tracks = EmptyDict
    /\ line_counter = <<>>
    /\ main_thread = InLoop
    /\ max_disappeared = MaxDisappeared
    /\ \E det \in Detections, n \in SettledFrames :
        LET t == SettledTracker([max_disappeared |-> MaxDisappeared,
                                 next_object_id |-> 0, objects |-> EmptyDict,
                                 disappeared |-> EmptyDict,
                                 object_history |-> EmptyDict,
                                 object_velocities |-> EmptyDict,
                                 object_sizes |-> EmptyDict], det, n)
        IN /\ next_object_id = t.next_object_id
           /\ objects = t.objects
           /\ disappeared = t.disappeared
           /\ object_history = t.object_history
           /\ object_velocities = t.object_velocities
           /\ object_sizes = t.object_sizes
           /\ frames = n
           /\ registered = [improved |-> {0}, simple |-> {}]
           /\ steady = [kind |-> "step", step |-> <<0, 0>>]
           /\ unmatched = [id \in {0} |-> 0]
           /\ last = [op |-> "update", dets |-> <<det>>, matched |-> {0},
                      assigned |-> <<<<0, 1>>>>, registered |-> <<>>]
           /\ ret = t.objects

\* One more frame, explored for MaxFrames - 1 frames past the limit of
\* the history.
SettledUpdate ==
    \E detections_with_sizes \in DetectionLists :
        /\ frames < HistoryLimit + MaxFrames - 1
        /\ ImprovedUpdateStep(detections_with_sizes,
                              UpdateCall(Tracker, detections_with_sizes))

NextSettled ==
    \/ SettledUpdate

SpecSettled == InitSettled /\ [][NextSettled]_vars

\* -------------------------------------------------- actions of SpecCost
\* An ImprovedTracker following one person, and the cost its update would
\* give each detection of the next frame.

\* Centroids explored: two positions 20 apart on one row, and one at the
\* same distance from the second position and from the position predicted
\* after a move from the first to the second.
CostPoints == <<<<100, 100>>, <<120, 100>>, <<123, 60>>>>

\* The (centroid, size) pairs explored: every centroid at the first size,
\* the last also at the second.
CostDetections ==
    {<<CostPoints[k], Sizes[1]>> : k \in 1..Len(CostPoints)}
        \cup {<<CostPoints[3], Sizes[2]>>}

\* A frame with at most one detection.
CostUpdate ==
    \E detections_with_sizes \in UNION {[1..n -> CostDetections] : n \in {0, 1}} :
        ImprovedUpdateTo(detections_with_sizes,
                         UpdateCall(Tracker, detections_with_sizes))

\* distances[i, j] = self.enhanced_distance(obj_id, centroid, size), called
\* for a live identity; the tracker is left as it is.
EnhancedDistanceCall ==
    \E obj_id \in DOMAIN objects, det \in CostDetections :
        /\ last' = [op |-> "enhanced_distance", obj_id |-> obj_id, det |-> det,
                    dets |-> last.dets]
        /\ ret' = enhanced_distance(Tracker, obj_id, det[1], det[2])
        /\ UNCHANGED <<counterVars, trackingVars, obs, lost, flips_in, flips_out>>

NextCost ==
    \/ CostUpdate
    \/ EnhancedDistanceCall

SpecCost == InitImproved /\ [][NextCost]_vars

\* -------------------------------------------- actions of SpecSimilarity
\* size_similarity on its own, called with two sizes.

\* Box sizes (width, height) explored: no width, no height, neither, and
\* sizes of equal and of different areas.
SizeInputs == {0, 20, 40, 80} \X {0, 20, 40}

\* size_sim = self.size_similarity(obj_size, detection_size)
SizeSimilarityCall ==
    \E size1 \in SizeInputs, size2 \in SizeInputs :
        /\ last' = [op |-> "size_similarity", size1 |-> size1, size2 |-> size2]
        /\ ret' = size_similarity(size1, size2)
        /\ UNCHANGED <<counterVars, trackingVars, obs, lost, flips_in, flips_out>>

NextSimilarity ==
    \/ SizeSimilarityCall

SpecSimilarity == InitImproved /\ [][NextSimilarity]_vars

\* -------------------------------------------------- actions of SpecLive
\* An ImprovedTracker in a session that does not end: run_webcam calls
\* process_frame for as long as the camera delivers frames.

\* Detections explored: two positions farther than max_distance apart, at
\* one size, so that an identity is matched only where it stands and no
\* velocity departs from (0, 0).
LiveDetections == {<<Points[1], Sizes[1]>>, <<Points[4], Sizes[1]>>}

LiveLists ==
    UNION {[1..n -> LiveDetections] : n \in DetectionCounts}

\* One more frame; frames are counted up to MaxFrames.
LiveUpdate ==
    \E detections_with_sizes \in LiveLists :
        \E call \in {UpdateCall(Tracker, detections_with_sizes)} :
            /\ ImprovedUpdateEffect(detections_with_sizes, call)
            /\ frames' = MinOf(frames + 1, MaxFrames)

NextLive ==
    \/ LiveUpdate

\* The loop of run_webcam goes on to its next frame.
SpecLive == InitImproved /\ [][NextLive]_vars /\ WF_vars(LiveUpdate)

\* ---------------------------------------------- actions of SpecPipeline
\* The application of main.py / gui_app.py with the fallback tracker: frame
\* cycles, the reset and the four settings mutators of the GUI.

\* What the network reports for a frame, as (class, confidence in tenths,
\* box).  Two overlapping person boxes (IoU 0.75) with centroids (120, 235)
\* and (120, 245), one on each side of a horizontal MainLine, at a
\* confidence between the two thresholds explored; and a person box far
\* from both, above both thresholds.
NetworkBoxes ==
    {<<0, DefaultConfidence + 1, <<100, MainLine - 40, 140, MainLine + 30>>>>,
     <<0, DefaultConfidence + 1, <<100, MainLine - 30, 140, MainLine + 40>>>>,
     <<0, DefaultConfidence + 3, <<300, MainLine - 40, 340, MainLine + 30>>>>}

\* Frames explored: at most two reported boxes.
NetworkOutputs ==
    UNION {[1..n -> NetworkBoxes] : n \in DetectionCounts}

\* The confidence slider positions explored: the default and one above
\* the confidence of the overlapping boxes.
Confidences == {DefaultConfidence, DefaultConfidence + 2}

\* The step of one frame cycle whose result is cycle.
PipelineFrameTo(boxes, cycle) ==
    /\ frames < MaxFrames
    /\ cycle.app.tracker.next_id <= MaxObjects + 1
    /\ cycle.app.counter.count_in <= MaxCount
    /\ cycle.app.counter.count_out <= MaxCount
    /\ AppBecomes(cycle.app)
    /\ UNCHANGED <<max_disappeared, max_age>>
    /\ frames' = frames + 1
    /\ registered' = [registered EXCEPT !.simple = @ \cup SeqRange(cycle.created)]
    /\ last' = [op |-> "frame", boxes |-> boxes,
                tracked_objects |-> cycle.tracked_objects,
                registered |-> cycle.created]
    /\ ret' = <<get_counts(cycle.app.counter), is_over_capacity(cycle.app.counter)>>
    /\ UNCHANGED <<improvedVars, line_counter, main_thread, steady, unmatched,
                   obs, lost, flips_in, flips_out>>

\* What the network may report, with a box of no width, a box of no
\* height beside the valid ones.
DetectorBoxes ==
    NetworkBoxes \cup
    {<<0, DefaultConfidence + 3, <<200, MainLine - 40, 200, MainLine + 30>>>>,
     <<0, DefaultConfidence + 3, <<300, MainLine + 30, 340, MainLine + 30>>>>}

\* Frames explored for the detector: at most two reported boxes, and
\* whether the detector raises on the frame.
DetectorResults ==
    {[boxes |-> boxes, raises |-> raises] :
        boxes \in UNION {[1..n -> DetectorBoxes] : n \in DetectionCounts},
        raises \in BOOLEAN}

\* The step of one frame cycle on results, whose outcome is cycle.
DetectorFrameTo(results, cycle) ==
    /\ frames < MaxFrames
    /\ cycle.app.tracker.next_id <= MaxObjects + 1
    /\ cycle.app.counter.count_in <= MaxCount
    /\ cycle.app.counter.count_out <= MaxCount
    /\ AppBecomes(cycle.app)
    /\ UNCHANGED <<max_disappeared, max_age>>
    /\ frames' = frames + 1
    /\ registered' = [registered EXCEPT !.simple = @ \cup SeqRange(cycle.created)]
    /\ last' = [op |-> "frame", raised |-> results.raises,
                reported |-> Len(results.boxes),
                tracked_objects |-> cycle.tracked_objects,
                registered |-> cycle.created]
    /\ ret' = <<get_counts(cycle.app.counter), is_over_capacity(cycle.app.counter)>>
    /\ UNCHANGED <<improvedVars, line_counter, main_thread, steady, unmatched,
                   obs, lost, flips_in, flips_out>>

\* One turn of the loop of main() / the pipeline of update_frame, the
\* detector failing or not.
DetectorFrame ==
    \E results \in DetectorResults :
        DetectorFrameTo(results, results_cycle(App, results))

NextDetector ==
    \/ DetectorFrame

SpecDetector == Init /\ [][NextDetector]_vars

\* One turn of the loop of main() / the pipeline of update_frame.
PipelineFrame ==
    \E boxes \in NetworkOutputs :
        PipelineFrameTo(boxes, frame_cycle(App, boxes))

\* The step of a handler that leaves the application as app.
PipelineHandlerTo(op, app) ==
    /\ AppBecomes(app)
    /\ UNCHANGED <<max_disappeared, max_age>>
    /\ last' = [op |-> op, had |-> HasAnything]
    /\ ret' = <<>>
    /\ UNCHANGED <<improvedVars, line_counter, main_thread, frames, registered,
                   steady, unmatched,
                   obs, lost, flips_in, flips_out>>

PipelineResetCounts ==
    PipelineHandlerTo("reset_counts", app_reset_counts(App))

PipelineUpdateMaxCapacity ==
    \E v \in Capacities :
        PipelineHandlerTo("update_max_capacity", app_update_max_capacity(App, v))

PipelineUpdateLinePosition ==
    \E v \in LinePositions :
        PipelineHandlerTo("update_line_position", app_update_line_position(App, v))

PipelineUpdateDirection ==
    \E d \in Directions :
        PipelineHandlerTo("update_direction", app_update_direction(App, d))

PipelineUpdateConfidence ==
    \E v \in Confidences :
        PipelineHandlerTo("update_confidence", app_update_confidence(App, v))

NextPipeline ==
    \/ PipelineFrame
    \/ PipelineResetCounts
    \/ PipelineUpdateMaxCapacity
    \/ PipelineUpdateLinePosition
    \/ PipelineUpdateDirection
    \/ PipelineUpdateConfidence

SpecPipeline == Init /\ [][NextPipeline]_vars

\* ------------------- LineCounter and EnhancedPeopleCountingSystem
\* LineCounter.__init__(line_start, line_end)
LineCounter(line_start, line_end) ==
    [line_start |-> line_start, line_end |-> line_end,
     in_count |-> 0, out_count |-> 0, last_positions |-> EmptyDict]

\* LineCounter._is_above_line(point)
is_above_line(self, point) ==
    (point[1] - self.line_start[1]) * (self.line_end[2] - self.line_start[2])
    - (point[2] - self.line_start[2]) * (self.line_end[1] - self.line_start[1]) > 0

\* The body of the loop of count_crossing for one item of objects.
count_one(self, obj_id, centroid) ==
    LET is_above == is_above_line(self, centroid)
        crossed == /\ obj_id \in DOMAIN self.last_positions
                   /\ self.last_positions[obj_id] # is_above
    IN [self EXCEPT
        !.in_count = IF crossed /\ is_above THEN @ + 1 ELSE @,
        !.out_count = IF crossed /\ ~is_above THEN @ + 1 ELSE @,
        !.last_positions = DictSet(@, obj_id, is_above)]

\* for obj_id, centroid in objects.items(), over the keys given in order;
\* centroids is the objects argument.
RECURSIVE count_items(_, _, _)
count_items(self, centroids, keys) ==
    IF Len(keys) = 0 THEN self
    ELSE count_items(count_one(self, Head(keys), centroids[Head(keys)]),
                     centroids, Tail(keys))

\* LineCounter.count_crossing(objects), objects = {id: (x, y)}, here centroids
count_crossing(self, centroids) ==
    count_items(self, centroids, KeysOf(DOMAIN centroids))

\* EnhancedPeopleCountingSystem.detect_people(frame) on what the network
\* reports for the frame, a list of (class, confidence in tenths, box with
\* integer corners): centroid and size of every person above the threshold.
RECURSIVE detect_people(_, _, _)
detect_people(conf_threshold, boxes, k) ==
    IF k > Len(boxes) THEN <<>>
    ELSE LET box == boxes[k]
             xyxy == box[3]
         IN (IF box[1] = 0 /\ box[2] > conf_threshold
             THEN <<[centroid |-> <<IntHalf(xyxy[1] + xyxy[3]), IntHalf(xyxy[2] + xyxy[4])>>,
                     size |-> <<xyxy[3] - xyxy[1], xyxy[4] - xyxy[2]>>]>>
             ELSE <<>>)
            \o detect_people(conf_threshold, boxes, k + 1)

\* frame.shape[:2] of the frames explored: (height, width), the middle of
\* the height at MainLine.
FrameShape == <<2 * MainLine, 640>>

\* The system's objects as one record.
System == [conf_threshold |-> ConfThreshold, tracker |-> Tracker,
           line_counter |-> line_counter]

\* EnhancedPeopleCountingSystem.process_frame(frame): the system after the
\* call, the list handed to the tracker, what the tracker returned and the
\* keys its register calls stored under.
process_frame(system, boxes) ==
    LET detections == detect_people(system.conf_threshold, boxes, 1)
        detections_with_sizes == [k \in 1..Len(detections) |->
                                     <<detections[k].centroid, detections[k].size>>]
        call == UpdateCall(system.tracker, detections_with_sizes)
        tracked_objects == call.t.objects
        counter == IF system.line_counter = <<>>
                   THEN LineCounter(<<FrameShape[2] \div 4, FrameShape[1] \div 2>>,
                                    <<(3 * FrameShape[2]) \div 4, FrameShape[1] \div 2>>)
                   ELSE system.line_counter[1]
    IN [system |-> [system EXCEPT !.tracker = call.t,
                                  !.line_counter = <<count_crossing(counter, tracked_objects)>>],
        detections_with_sizes |-> detections_with_sizes,
        tracked_objects |-> tracked_objects,
        registered |-> call.registered]

\* What the network may report to the enhanced system: a person above the
\* line, the same person below it, a box of no width, and a person at the
\* threshold.
EnhancedBoxes ==
    {<<0, ConfThreshold + 2, <<80, MainLine - 80, 120, MainLine>>>>,
     <<0, ConfThreshold + 2, <<80, MainLine, 120, MainLine + 80>>>>,
     <<0, ConfThreshold + 2, <<400, MainLine - 80, 400, MainLine>>>>,
     <<0, ConfThreshold, <<80, MainLine - 80, 120, MainLine>>>>}

\* Frames explored: at most two reported boxes.
EnhancedOutputs ==
    UNION {[1..n -> EnhancedBoxes] : n \in DetectionCounts}

\* The step of one process_frame call whose outcome is call.
EnhancedFrameTo(boxes, call) ==
    /\ frames < MaxFrames
    /\ call.system.tracker.next_object_id <= MaxObjects
    /\ call.system.line_counter[1].in_count <= MaxCount
    /\ call.system.line_counter[1].out_count <= MaxCount
    /\ TrackerBecomes(call.system.tracker)
    /\ line_counter' = call.system.line_counter
    /\ frames' = frames + 1
    /\ registered' = [registered EXCEPT !.improved = @ \cup SeqRange(call.registered)]
    /\ last' = [op |-> "process_frame", boxes |-> boxes,
                dets |-> call.detections_with_sizes,
                registered |-> call.registered]
    /\ ret' = call.tracked_objects
    /\ UNCHANGED <<max_disappeared, max_age>>
    /\ UNCHANGED <<counterVars, confidence, simpleVars, main_thread, steady, unmatched,
                   obs, lost, flips_in, flips_out>>

\* vis_frame, tracked_objects = self.process_frame(frame)
EnhancedFrame ==
    \E boxes \in EnhancedOutputs :
        EnhancedFrameTo(boxes, process_frame(System, boxes))

NextEnhanced ==
    \/ EnhancedFrame

SpecEnhanced == InitImproved /\ [][NextEnhanced]_vars

\* ------------------------- the frame cycle and the handlers, step by step
\* Mutant of InEventLoop: callbacks are dispatched wherever the thread is.
InEventLoop_Anywhere == TRUE

\* Whether the thread is where callbacks are dispatched from: the Qt event
\* loop, which is also what a modal dialog runs until it is answered; in
\* main() the end of a turn of the loop, where the key is read.
InEventLoop == main_thread.at = "loop"

\* Whether the main window takes input: no modal dialog is open.
WindowEnabled == main_thread.dialog = "none"

\* What a step of the thread leaves alone beside the application's objects.
StepRest ==
    /\ UNCHANGED <<max_disappeared, max_age>>
    /\ UNCHANGED <<improvedVars, line_counter, registered, steady, unmatched,
                   obs, lost, flips_in, flips_out>>

\* Frame cycles explored step by step per run: one fewer than whole frames.
StepFrames == MaxFrames - 1

\* update_frame up to tracker.update (main() lines 43-49): the timer's
\* callback starts, the detector runs and the tracker is updated.
StepTrackTo(boxes, tracked) ==
    /\ InEventLoop
    /\ frames < StepFrames
    /\ tracked.t.next_id <= MaxObjects + 1
    /\ AppBecomes([App EXCEPT !.tracker = tracked.t])
    /\ main_thread' = [main_thread EXCEPT !.at = "cycle",
                                          !.tracked_objects = tracked.tracked_objects,
                                          !.k = 1]
    /\ frames' = frames + 1
    /\ last' = [op |-> "tracker_update", had |-> HasAnything,
                opened_at |-> main_thread.opened_at]
    /\ ret' = tracked.tracked_objects
    /\ StepRest

StepTrack ==
    \E boxes \in NetworkOutputs :
        StepTrackTo(boxes, update_simple(Simple, PersonDetector_detect(
                               App.detector, [boxes |-> boxes, raises |-> FALSE])))

\* for obj in tracked_objects: self.counter.check_crossing(obj["id"], obj["bbox"]),
\* one turn.
StepCheckCrossing ==
    /\ main_thread.at = "cycle"
    /\ main_thread.k <= Len(main_thread.tracked_objects)
    /\ LET obj == main_thread.tracked_objects[main_thread.k]
           checked == check_crossing(Self, obj.id, obj.bbox)
       IN /\ checked.count_in <= MaxCount
          /\ checked.count_out <= MaxCount
          /\ AppBecomes([App EXCEPT !.counter = checked])
    /\ main_thread' = [main_thread EXCEPT !.k = @ + 1]
    /\ last' = [op |-> "check_crossing", had |-> HasAnything,
                opened_at |-> main_thread.opened_at]
    /\ ret' = <<>>
    /\ UNCHANGED frames
    /\ StepRest

\* self.counter.cleanup_lost_tracks(active_ids), which ends the cycle.
StepCleanup ==
    /\ main_thread.at = "cycle"
    /\ main_thread.k > Len(main_thread.tracked_objects)
    /\ AppBecomes([App EXCEPT !.counter = cleanup_lost_tracks(@,
                       {main_thread.tracked_objects[k].id :
                            k \in 1..Len(main_thread.tracked_objects)})])
    /\ main_thread' = [main_thread EXCEPT !.at = "loop", !.tracked_objects = <<>>,
                                          !.k = 0]
    /\ last' = [op |-> "cleanup_lost_tracks", had |-> HasAnything,
                opened_at |-> main_thread.opened_at]
    /\ ret' = <<>>
    /\ UNCHANGED frames
    /\ StepRest

\* The step of a callback that leaves the application as app and the
\* dialog as given.
StepHandlerTo(op, app, dialog) ==
    /\ InEventLoop
    /\ AppBecomes(app)
    /\ main_thread' = [main_thread EXCEPT !.dialog = dialog,
                                          !.opened_at = IF dialog = "question"
                                                        THEN frames ELSE @]
    /\ last' = [op |-> op, had |-> HasAnything, opened_at |-> main_thread.opened_at]
    /\ ret' = <<>>
    /\ UNCHANGED frames
    /\ StepRest

\* The Reset button: reset_counts opens its confirmation dialog.
StepResetClicked ==
    /\ WindowEnabled
    /\ StepHandlerTo("reset_clicked", App, "question")

\* The confirmation dialog is answered: Yes resets the counter and opens
\* the information dialog, No returns.
StepResetAnswered ==
    /\ main_thread.dialog = "question"
    /\ \/ StepHandlerTo("reset_counts", app_reset_counts(App), "information")
       \/ StepHandlerTo("reset_declined", App, "none")

\* The information dialog is closed and reset_counts returns.
StepResetDone ==
    /\ main_thread.dialog = "information"
    /\ StepHandlerTo("reset_done", App, "none")

\* Key 'r' at the end of a turn of the loop of main().
StepKeyReset ==
    /\ WindowEnabled
    /\ StepHandlerTo("reset_counts", app_reset_counts(App), "none")

\* The settings widgets' handlers.
StepUpdateMaxCapacity ==
    /\ WindowEnabled
    /\ \E v \in Capacities :
        StepHandlerTo("update_max_capacity", app_update_max_capacity(App, v), "none")

StepUpdateLinePosition ==
    /\ WindowEnabled
    /\ \E v \in LinePositions :
        StepHandlerTo("update_line_position", app_update_line_position(App, v), "none")

StepUpdateDirection ==
    /\ WindowEnabled
    /\ \E d \in Directions :
        StepHandlerTo("update_direction", app_update_direction(App, d), "none")

StepUpdateConfidence ==
    /\ WindowEnabled
    /\ \E v \in Confidences :
        StepHandlerTo("update_confidence", app_update_confidence(App, v), "none")

NextSteps ==
    \/ StepTrack
    \/ StepCheckCrossing
    \/ StepCleanup
    \/ StepResetClicked
    \/ StepResetAnswered
    \/ StepResetDone
    \/ StepKeyReset
    \/ StepUpdateMaxCapacity
    \/ StepUpdateLinePosition
    \/ StepUpdateDirection
    \/ StepUpdateConfidence

SpecSteps == InitImproved /\ [][NextSteps]_vars

\* ------------------------------- PeopleCounter built from any settings
\* The max_capacity arguments explored for the constructor: what
\* settings.json may hold, which load_settings takes as it is, beside the
\* values of the spin box.
SettingsCapacities == {-1, 0} \cup Capacities

\* PeopleCounter(line_position, direction, max_capacity) as the camera
\* worker builds it from self.settings.
InitFromSettings ==
    /\ line_position \in LinePositions
    /\ direction \in Directions
    /\ max_capacity \in SettingsCapacities
    /\ count_in = 0
    /\ count_out = 0
    /\ track_memory = EmptyDict
    /\ track_states = EmptyDict
    /\ last = Plain("init")
    /\ ret = <<>>
    /\ obs = EmptyDict
    /\ lost = EmptyDict
    /\ flips_in = 0
    /\ flips_out = 0
    /\ InitTracking
    /\ max_age = MaxAge
    /\ max_disappeared = MaxDisappeared

NextFromSettings ==
    \/ CheckCrossing
    \/ IsOverCapacity
    \/ UpdateMaxCapacity

SpecFromSettings == InitFromSettings /\ [][NextFromSettings]_vars

\* ------------------------ LineCounter beside PeopleCounter, same inputs
\* A PeopleCounter with the horizontal line at MainLine and a LineCounter on
\* the segment process_frame builds at that height.
InitBoth ==
    /\ InitCounter
    /\ InitTracking
    /\ line_position = MainLine
    /\ direction = "horizontal"
    /\ max_capacity = MaxCount
    /\ max_age = MaxAge
    /\ max_disappeared = MaxDisappeared

\* The segment-based counter, built by the first observation as
\* process_frame builds it.
BuiltLineCounter ==
    IF line_counter = <<>>
    THEN LineCounter(<<FrameShape[2] \div 4, FrameShape[1] \div 2>>,
                     <<(3 * FrameShape[2]) \div 4, FrameShape[1] \div 2>>)
    ELSE line_counter[1]

\* One observation (identity, box) handed to both counters:
\* check_crossing(track_id, bbox) and count_crossing({track_id: centroid}).
BothObserve ==
    \E track_id \in Ids, bbox \in Boxes :
        LET counted == count_crossing(BuiltLineCounter,
                                      DictSet(EmptyDict, track_id, Centroid(bbox)))
        IN /\ CheckCrossingCall(track_id, bbox)
           /\ counted.in_count <= MaxCount
           /\ counted.out_count <= MaxCount
           /\ line_counter' = <<counted>>
           /\ last' = Call("check_crossing", track_id, bbox, {}, HasState(track_id), "")
           /\ UNCHANGED <<confidence, max_age, simpleVars, max_disappeared, improvedVars,
                          main_thread, frames, registered, steady, unmatched,
                          obs, lost, flips_in, flips_out>>

NextBoth ==
    \/ BothObserve

SpecBoth == InitBoth /\ [][NextBoth]_vars

\* ---------------------------------------------- actions of SpecTrackers
\* A session of either program: people_count_track.py, which feeds an
\* ImprovedTracker, or main.py / gui_app.py without deep_sort_realtime,
\* which feed the fallback MultiObjectTracker.

\* The step of one fallback update call whose result is call.
SimpleUpdateTo(boxes, call) ==
    /\ frames < MaxFrames
    /\ call.t.next_id <= MaxObjects + 1
    /\ next_id' = call.t.next_id
    /\ tracks' = call.t.tracks
    /\ UNCHANGED <<max_disappeared, max_age>>
    /\ frames' = frames + 1
    /\ registered' = [registered EXCEPT !.simple = @ \cup SeqRange(call.created)]
    /\ last' = [op |-> "update_simple", boxes |-> boxes,
                tracked_objects |-> call.tracked_objects,
                registered |-> call.created]
    /\ ret' = call.tracked_objects
    /\ UNCHANGED <<counterVars, confidence, improvedVars, line_counter, main_thread,
                   steady, unmatched,
                   obs, lost, flips_in, flips_out>>

\* tracked_objects = tracker.update(frame, detector.detect(frame))
SimpleUpdate ==
    \E boxes \in NetworkOutputs :
        SimpleUpdateTo(boxes, update_simple(Simple, detect(confidence, boxes, 1)))

\* A frame of a people_count_track.py session.
SessionImprovedUpdate ==
    /\ last.op \in {"init", "update"}
    /\ ImprovedUpdate

\* A frame of a main.py / gui_app.py session.
SessionSimpleUpdate ==
    /\ last.op \in {"init", "update_simple"}
    /\ SimpleUpdate

NextTrackers ==
    \/ SessionImprovedUpdate
    \/ SessionSimpleUpdate

\* The trackers constructed without patience, or with the largest
\* patience explored.
InitTrackers ==
    /\ InitCounter
    /\ InitTracking
    /\ line_position = MainLine
    /\ direction = "horizontal"
    /\ max_capacity = MaxCount
    /\ \E patient \in BOOLEAN :
        /\ max_age = (IF patient THEN MaxAge ELSE 0)
        /\ max_disappeared = (IF patient THEN MaxDisappeared ELSE 0)

SpecTrackers == InitTrackers /\ [][NextTrackers]_vars

\* ------------------------------------------------------------ properties
\* The step is a check_crossing call for identity i.
Observes(i) == last'.op = "check_crossing" /\ last'.id = i

\* Exactly one of the two counters goes up by exactly one, the other stays.
OneEvent ==
    \/ count_in' = count_in + 1 /\ count_out' = count_out
    \/ count_out' = count_out + 1 /\ count_in' = count_in

\* C1: direction mapping.  With the side of a bbox taken on its centroid
\* ('above' iff cy < line_position, a centroid on the line being 'below';
\* 'left' iff cx < line_position), two consecutive check_crossing calls for
\* the same identity under an unchanged configuration whose sides are
\* above-then-below or left-then-right raise count_in by exactly 1 and leave
\* count_out alone; below-then-above or right-then-left raise count_out by
\* exactly 1 and leave count_in alone.  (obs[i] is the bbox of the previous
\* call for i; it is there only while the configuration is unchanged and the
\* identity was neither pruned nor reset in between.)
C1_DirectionMapping ==
    [][\A i \in Ids :
        (Observes(i) /\ i \in DOMAIN obs) =>
            LET s1 == SpecSideName(direction, line_position, obs[i])
                s2 == SpecSideName(direction', line_position', last'.bbox)
            IN /\ (<<s1, s2>> \in {<<"above", "below">>, <<"left", "right">>}) =>
                    (count_in' = count_in + 1 /\ count_out' = count_out)
               /\ (<<s1, s2>> \in {<<"below", "above">>, <<"right", "left">>}) =>
                    (count_out' = count_out + 1 /\ count_in' = count_in)]_vars

\* An identity seen above the line and then with its centroid exactly on the
\* line has been counted in.
C1_Witness ==
    /\ last.op = "check_crossing"
    /\ last.kind = "flip_in"
    /\ direction = "horizontal"
    /\ SpecAxis(direction, last.bbox) = line_position
    /\ count_in = 1
    /\ count_out = 0

\* C2: first observation emits no count.  A check_crossing call for an
\* identity without stored line-side state (never seen, pruned, or cleared by
\* reset) leaves count_in and count_out unchanged whatever the side, and
\* afterwards the identity has a stored side and a stored position.
C2_FirstObservationSilent ==
    [][\A i \in Ids :
        (Observes(i) /\ i \notin DOMAIN track_memory /\ i \notin DOMAIN track_states) =>
            /\ count_in' = count_in
            /\ count_out' = count_out
            /\ i \in DOMAIN track_memory'
            /\ i \in DOMAIN track_states'
            /\ track_states'[i] = SpecSideName(direction, line_position, last'.bbox)
            /\ track_memory'[i] = SpecAxis(direction, last'.bbox)]_vars

\* A first observation on the far side of the line, made after another
\* identity has already been counted.
C2_Witness ==
    /\ last.op = "check_crossing"
    /\ ~last.had
    /\ last.id \in DOMAIN track_memory
    /\ last.id \in DOMAIN track_states
    /\ track_states[last.id] \in {"below", "right"}
    /\ count_in = 1
    /\ count_out = 0

\* The side s belongs to the orientation dir.
SideOfOrientation(dir, s) ==
    IF dir = "horizontal" THEN s \in {"above", "below"} ELSE s \in {"left", "right"}

\* C3 as stated: for every check_crossing call on an identity that already
\* has stored state, in any sequence of observations and runtime changes of
\* line position or direction, if the newly computed side differs from the
\* stored side exactly one of count_in / count_out increases by exactly 1,
\* and if it is equal neither changes; in both cases the stored side and
\* position are overwritten with the new values.
C3_Original ==
    [][\A i \in Ids :
        (Observes(i) /\ i \in DOMAIN track_memory /\ i \in DOMAIN track_states) =>
            LET new == SpecSideName(direction, line_position, last'.bbox) IN
            /\ (new # track_states[i]) => OneEvent
            /\ (new = track_states[i]) => (count_in' = count_in /\ count_out' = count_out)
            /\ track_states'[i] = new
            /\ track_memory'[i] = SpecAxis(direction, last'.bbox)]_vars

\* C3 (amended): for every check_crossing call on an identity that already
\* has stored state, in any sequence of observations and runtime changes of
\* line position or direction: if the newly computed side differs from the
\* stored side and the stored side is a side of the current orientation,
\* exactly one of count_in / count_out increases by exactly 1; if it is equal
\* to the stored side, or the stored side is a side of the other orientation
\* (the direction was changed since it was stored), neither counter changes;
\* in every case the stored side and position are overwritten with the new
\* values.
C3_OneEventPerSideChange ==
    [][\A i \in Ids :
        (Observes(i) /\ i \in DOMAIN track_memory /\ i \in DOMAIN track_states) =>
            LET new == SpecSideName(direction, line_position, last'.bbox)
                old == track_states[i]
            IN /\ (new # old /\ SideOfOrientation(direction, old)) => OneEvent
               /\ (new = old \/ ~SideOfOrientation(direction, old)) =>
                    (count_in' = count_in /\ count_out' = count_out)
               /\ track_states'[i] = new
               /\ track_memory'[i] = SpecAxis(direction, last'.bbox)]_vars

\* An identity whose stored state was there is observed on the other side
\* after the line has been moved at run time, and one event is counted.
C3_Witness ==
    /\ last.op = "check_crossing"
    /\ last.had
    /\ track_states[last.id] = "above"
    /\ line_position = MainLine + 1
    /\ SpecAxis(direction, last.bbox) = MainLine
    /\ count_in = 0
    /\ count_out = 1

\* C4: no count without crossing.  Under an unchanged line configuration and
\* starting from zeroed counters, as long as every observation of an identity
\* lies on the side of its previous one (however the position moves within
\* that side) count_in = 0 and count_out = 0.
C4_NoCountWithoutCrossing ==
    (flips_in = 0 /\ flips_out = 0) => (count_in = 0 /\ count_out = 0)

\* An identity has just been re-observed at another coordinate on the same
\* side, no identity has changed sides so far, and both counters are zero.
C4_Witness ==
    /\ last.op = "check_crossing"
    /\ last.kind = "within"
    /\ flips_in = 0
    /\ flips_out = 0
    /\ count_in = 0
    /\ count_out = 0

\* C5: no hysteresis.  Under an unchanged line configuration, count_in
\* equals the number of above-to-below (left-to-right) side flips between
\* consecutive observations of an identity that was neither pruned nor reset
\* in between, and count_out the number of reverse flips: n + 1 alternating
\* observations produce n counted events.
C5_CountsEqualFlips ==
    count_in = flips_in /\ count_out = flips_out

\* One identity alternated across the line four times: three events, two in
\* and one out (235, 245, 235, 245 around 240).
C5_Witness ==
    /\ DOMAIN obs = {1}
    /\ DOMAIN lost = {}
    /\ last.op = "check_crossing"
    /\ last.kind = "flip_in"
    /\ flips_in = 2
    /\ flips_out = 1
    /\ count_in = 2
    /\ count_out = 1

\* C6: counters are monotone.  Across any sequence of check_crossing,
\* cleanup_lost_tracks, get_counts, get_current_inside, is_over_capacity and
\* configuration changes count_in and count_out never decrease and are never
\* negative; only reset_counts lowers either of them.
C6_CountersMonotone ==
    [][/\ count_in' >= 0
       /\ count_out' >= 0
       /\ (last'.op # "reset_counts") =>
             (count_in' >= count_in /\ count_out' >= count_out)]_vars

\* Both counters are positive after a call that is not a reset.
C6_Witness ==
    /\ last.op \in {"cleanup_lost_tracks", "update_direction", "is_over_capacity"}
    /\ count_in > 0
    /\ count_out > 0

\* The larger of two integers.
Max(a, b) == IF a >= b THEN a ELSE b

\* C7: occupancy clamp.  In every reachable counter state
\* get_current_inside() is max(0, count_in - count_out): 0 whenever
\* count_out >= count_in, never negative; and that is what the call returns.
C7_OccupancyClamp ==
    /\ get_current_inside(Self) = Max(0, count_in - count_out)
    /\ get_current_inside(Self) >= 0
    /\ (count_out >= count_in) => (get_current_inside(Self) = 0)
    /\ (last.op = "get_current_inside") => (ret = <<Max(0, count_in - count_out)>>)

\* get_current_inside() has returned 0 with more exits than entries counted.
C7_Witness ==
    /\ last.op = "get_current_inside"
    /\ count_out > count_in
    /\ ret = <<0>>

\* C8: over-capacity predicate.  is_over_capacity() returns (flag, occupancy)
\* with occupancy = get_current_inside() and flag true exactly when
\* occupancy > max_capacity (equal is not over), and the call changes no
\* counter state.
C8_OverCapacity ==
    [][(last'.op = "is_over_capacity") =>
          /\ Len(ret') = 2
          /\ ret'[2] = get_current_inside(Self)
          /\ ret'[1] = (ret'[2] > max_capacity)
          /\ UNCHANGED counterVars]_vars

\* is_over_capacity() has answered "not over" with occupancy equal to the capacity.
C8_Witness ==
    /\ last.op = "is_over_capacity"
    /\ ret = <<FALSE, max_capacity>>

\* C9: pruning.  After cleanup_lost_tracks(active_ids) the counter holds
\* position and side only for identities in active_ids; an identity pruned
\* this way and observed again is treated as never seen: its next
\* check_crossing emits no count, also on the opposite side of the line from
\* its last observation before the prune.
C9_Pruning ==
    [][/\ (last'.op = "cleanup_lost_tracks") =>
             /\ DOMAIN track_memory' \subseteq last'.ids
             /\ DOMAIN track_states' \subseteq last'.ids
       /\ (last'.op = "check_crossing" /\ last'.kind \in {"lost_same", "lost_opposite"}) =>
             /\ count_in' = count_in
             /\ count_out' = count_out
             /\ ~last'.had]_vars

\* A pruned identity has been observed again on the opposite side and both
\* counters are still zero.
C9_Witness ==
    /\ last.op = "check_crossing"
    /\ last.kind = "lost_opposite"
    /\ count_in = 0
    /\ count_out = 0

\* C10: reset clears and is idempotent.  From any reachable state
\* reset_counts() gives count_in = 0, count_out = 0 and empty position and
\* side maps, and a second reset_counts() changes nothing more.
C10_ResetIdempotent ==
    LET once == reset_counts(Self) IN
    /\ once.count_in = 0
    /\ once.count_out = 0
    /\ once.track_memory = EmptyDict
    /\ once.track_states = EmptyDict
    /\ reset_counts(once) = once
    /\ (last.op = "reset_counts") =>
          /\ count_in = 0
          /\ count_out = 0
          /\ track_memory = EmptyDict
          /\ track_states = EmptyDict
          /\ reset_counts(Self) = Self

\* reset_counts() has cleared a counter that held counts or identities.
C10_Witness ==
    /\ last.op = "reset_counts"
    /\ last.had
    /\ count_in = 0
    /\ count_out = 0
    /\ track_memory = EmptyDict
    /\ track_states = EmptyDict

\* The handlers behind the four settings widgets of the GUI.
SettingsOps == {"update_max_capacity", "update_line_position",
                "update_direction", "update_confidence"}

\* C11: reset leaves everything else unchanged.  reset_counts, as called by
\* key 'r' of the main loop and by the confirmed Reset button of the GUI,
\* changes neither the tracker's live identities, their boxes and ages, nor
\* the next identity to be assigned, nor line_position, direction or
\* max_capacity.
C11_ResetLeavesRest ==
    [][(last'.op = "reset_counts") =>
          /\ tracks' = tracks
          /\ next_id' = next_id
          /\ line_position' = line_position
          /\ direction' = direction
          /\ max_capacity' = max_capacity]_vars

\* A reset has cleared a counter that held something while the tracker
\* holds identities.
C11_Witness ==
    /\ last.op = "reset_counts"
    /\ last.had
    /\ DOMAIN tracks # {}
    /\ next_id > 1
    /\ track_states = EmptyDict

\* C12: configuration changes preserve state.  Changing max capacity, line
\* position, line direction or the confidence threshold leaves count_in,
\* count_out, every stored side and position and all tracker identities as
\* they were.
C12_SettingsPreserveState ==
    [][(last'.op \in SettingsOps) =>
          /\ count_in' = count_in
          /\ count_out' = count_out
          /\ track_memory' = track_memory
          /\ track_states' = track_states
          /\ tracks' = tracks
          /\ next_id' = next_id]_vars

\* The direction has been switched to vertical while the counter holds a
\* count and a side of the horizontal orientation, and the tracker an
\* identity.
C12_Witness ==
    /\ last.op = "update_direction"
    /\ direction = "vertical"
    /\ count_in > 0
    /\ \E i \in DOMAIN track_states : track_states[i] \in {"above", "below"}
    /\ DOMAIN tracks # {}

\* The list s is strictly increasing.
Increasing(s) == \A j, k \in 1..Len(s) : (j < k) => (s[j] < s[k])

\* The identities in the list s are new in increasing order, each greater
\* than every identity in before, and are keys of the map after.
FreshIdentities(s, before, after) ==
    /\ Increasing(s)
    /\ \A k \in 1..Len(s) :
        /\ \A old \in before : s[k] > old
        /\ s[k] \in DOMAIN after

\* C13: identities are never reused.  Every identity a tracker update
\* registers is strictly greater than every identity that tracker registered
\* before, removed ones included, for ImprovedTracker (next_object_id) and
\* for the fallback tracker (next_id).
C13_IdentitiesNeverReused ==
    [][/\ (last'.op = "update") =>
             FreshIdentities(last'.registered, registered.improved, objects')
       /\ (last'.op = "update_simple") =>
             FreshIdentities(last'.registered, registered.simple, tracks')]_vars

\* An ImprovedTracker has registered an identity after it removed a
\* smaller one.
C13_Witness ==
    /\ last.op = "update"
    /\ Len(last.registered) > 0
    /\ \E old \in registered.improved :
        /\ old \notin DOMAIN objects
        /\ old < last.registered[1]

\* C14: removal threshold of ImprovedTracker.  An identity that got no
\* matching detection in up to max_disappeared consecutive update calls of
\* any kind is still in the tracker, and after the (max_disappeared + 1)-th
\* consecutive unmatched update it has been deregistered.
C14_RemovalThreshold ==
    \A id \in DOMAIN unmatched :
        /\ (unmatched[id] <= max_disappeared) => (id \in DOMAIN objects)
        /\ (unmatched[id] > max_disappeared) => (id \notin DOMAIN objects)

\* Whether the cost of a detection to every identity the tracker holds,
\* computed from the predicted positions, exceeds max_distance.
FarFromAll(detection) ==
    \A object_id \in DOMAIN objects :
        ~WithinMaxDistance(enhanced_distance(Tracker, object_id,
                                             detection[1], detection[2]))

\* C15: new-identity creation in ImprovedTracker.update.  Every detection
\* whose cost to every existing identity exceeds max_distance is registered
\* as a new identity in that same update, whatever the numbers of identities
\* and detections.
C15_FarDetectionRegistered ==
    [][(last'.op = "update") =>
          \A j \in DOMAIN last'.dets :
              FarFromAll(last'.dets[j]) =>
                  \E id \in SeqRange(last'.registered) :
                      /\ id \in DOMAIN objects'
                      /\ objects'[id] = last'.dets[j][1]
                      /\ object_sizes'[id] = last'.dets[j][2]]_vars

\* C16: unmatched handling in ImprovedTracker.update.  In every update each
\* existing identity to which no detection is assigned has its
\* disappeared-count increased by exactly 1 (and is removed when the count
\* thereby exceeds max_disappeared), and each detection assigned to no
\* identity becomes a new identity, whichever of the two is more numerous.
C16_UnmatchedHandling ==
    [][(last'.op = "update") =>
          /\ \A id \in DOMAIN objects \ last'.matched :
                 IF id \in DOMAIN objects'
                 THEN disappeared'[id] = disappeared[id] + 1
                 ELSE disappeared[id] + 1 > max_disappeared
          /\ Len(last'.registered) = Len(last'.dets) - Cardinality(last'.matched)]_vars

\* C17: zero-detection frame in ImprovedTracker.update.  An update with an
\* empty detection list increases the disappeared-count of every identity by
\* exactly 1, registers nothing, removes exactly the identities whose count
\* thereby exceeds max_disappeared and leaves centroid, velocity, size and
\* history of every survivor unchanged.
C17_EmptyFrame ==
    [][(last'.op = "update" /\ last'.dets = <<>>) =>
          /\ next_object_id' = next_object_id
          /\ last'.registered = <<>>
          /\ DOMAIN objects' =
                 {id \in DOMAIN objects : disappeared[id] + 1 <= max_disappeared}
          /\ DOMAIN disappeared' = DOMAIN objects'
          /\ DOMAIN object_velocities' = DOMAIN objects'
          /\ DOMAIN object_sizes' = DOMAIN objects'
          /\ DOMAIN object_history' = DOMAIN objects'
          /\ \A id \in DOMAIN objects' :
                 /\ disappeared'[id] = disappeared[id] + 1
                 /\ objects'[id] = objects[id]
                 /\ object_velocities'[id] = object_velocities[id]
                 /\ object_sizes'[id] = object_sizes[id]
                 /\ object_history'[id] = object_history[id]]_vars

\* An empty frame has removed one identity and aged another one, which had
\* moved before, to its first tick.
C17_Witness ==
    /\ last.op = "update"
    /\ last.dets = <<>>
    /\ \E id \in registered.improved : id \notin DOMAIN objects
    /\ \E id \in DOMAIN objects :
        /\ disappeared[id] = 1
        /\ object_velocities[id] # ZeroVelocity
        /\ Len(object_history[id]) = 2

\* C18: zero-identity frame in ImprovedTracker.update.  A tracker with no
\* live identity that receives n >= 1 detections registers exactly n new
\* identities, one per detection in input order with consecutive numbers,
\* each with disappeared-count 0, velocity (0, 0), a one-element history
\* holding its centroid, and the detection's size.
C18_EmptyTrackerRegistersAll ==
    [][(last'.op = "update" /\ DOMAIN objects = {} /\ Len(last'.dets) >= 1) =>
          LET n == Len(last'.dets) IN
          /\ next_object_id' = next_object_id + n
          /\ last'.registered = [k \in 1..n |-> next_object_id + k - 1]
          /\ DOMAIN objects' = next_object_id..(next_object_id + n - 1)
          /\ DOMAIN disappeared' = DOMAIN objects'
          /\ DOMAIN object_velocities' = DOMAIN objects'
          /\ DOMAIN object_sizes' = DOMAIN objects'
          /\ DOMAIN object_history' = DOMAIN objects'
          /\ \A k \in 1..n :
                 LET id == next_object_id + k - 1 IN
                 /\ objects'[id] = last'.dets[k][1]
                 /\ disappeared'[id] = 0
                 /\ object_velocities'[id] = ZeroVelocity
                 /\ object_history'[id] = <<last'.dets[k][1]>>
                 /\ object_sizes'[id] = last'.dets[k][2]]_vars

\* A tracker that had removed its only identity has registered two
\* detections of different centroids and sizes.
C18_Witness ==
    /\ last.op = "update"
    /\ last.registered = <<1, 2>>
    /\ DOMAIN objects = {1, 2}
    /\ objects[1] # objects[2]
    /\ object_sizes[1] # object_sizes[2]

\* C19: identity stability.  While every frame brings exactly one detection
\* of constant size whose centroid advances by the same displacement of
\* magnitude at most max_distance, the identity registered in the first frame
\* is matched in every later frame: no second identity is registered, its
\* disappeared-count stays 0 and it is never removed.
C19_IdentityStability ==
    (steady.kind \in {"one", "step"}) =>
        /\ next_object_id = 1
        /\ DOMAIN objects = {0}
        /\ disappeared[0] = 0
        /\ objects[0] = last.dets[1][1]
        /\ Len(object_history[0]) = frames

\* Three frames have moved one detection twice by the same displacement, of
\* magnitude exactly max_distance.
C19_Witness ==
    /\ steady.kind = "step"
    /\ steady.step[1] * steady.step[1] + steady.step[2] * steady.step[2]
           = max_distance * max_distance
    /\ frames = 3

\* C20: line-side state lives as long as the track.  In a frame of the
\* pipeline the counter's stored side of an identity is deleted only when the
\* tracker itself no longer holds that identity: an identity the fallback
\* tracker retains after a frame without a matching detection keeps its
\* stored side.
C20_SideLivesWithTrack ==
    [][(last'.op = "frame") =>
          \A track_id \in DOMAIN track_states :
              (track_id \in DOMAIN tracks') => (track_id \in DOMAIN track_states')]_vars

\* The cost of detection j of an update's input to an identity, from the
\* state before the update.
CostBefore(object_id, dets, j) ==
    enhanced_distance(Tracker, object_id, dets[j][1], dets[j][2])

\* The first detection of least cost to an identity.
BestDetection(object_id, dets) ==
    CHOOSE j \in DOMAIN dets :
        /\ \A other \in DOMAIN dets :
               ~DistLess(CostBefore(object_id, dets, other), CostBefore(object_id, dets, j))
        /\ \A earlier \in 1..(j - 1) :
               DistLess(CostBefore(object_id, dets, j), CostBefore(object_id, dets, earlier))

\* The least cost of an identity over all detections.
MinCost(object_id, dets) == CostBefore(object_id, dets, BestDetection(object_id, dets))

\* C28: assignment is one-to-one and distance-bounded.  Within one update
\* each detection updates at most one identity, each identity is updated by
\* at most one detection, and only by a detection whose cost to it is at
\* most max_distance; identities that were assigned nothing keep centroid,
\* size and history.
C28_OneToOneBounded ==
    [][(last'.op = "update") =>
          LET a == last'.assigned
              dets == last'.dets
          IN /\ \A k, l \in DOMAIN a :
                    (k # l) => (a[k][1] # a[l][1] /\ a[k][2] # a[l][2])
             /\ {a[k][1] : k \in DOMAIN a} = last'.matched
             /\ \A k \in DOMAIN a :
                    /\ a[k][1] \in DOMAIN objects
                    /\ a[k][2] \in DOMAIN dets
                    /\ WithinMaxDistance(CostBefore(a[k][1], dets, a[k][2]))
                    /\ objects'[a[k][1]] = dets[a[k][2]][1]
                    /\ object_sizes'[a[k][1]] = dets[a[k][2]][2]
             /\ \A id \in (DOMAIN objects \cap DOMAIN objects') \ last'.matched :
                    /\ objects'[id] = objects[id]
                    /\ object_sizes'[id] = object_sizes[id]
                    /\ object_history'[id] = object_history[id]
                    /\ object_velocities'[id] = object_velocities[id]]_vars

\* An update has assigned two detections to two identities.
C28_Witness ==
    /\ last.op = "update"
    /\ Len(last.assigned) = 2
    /\ Len(last.dets) = 2
    /\ last.dets[1] # last.dets[2]

\* The first index of least cost in one identity's row of costs.
BestIn(row) ==
    CHOOSE j \in DOMAIN row :
        /\ \A other \in DOMAIN row : ~DistLess(row[other], row[j])
        /\ \A earlier \in 1..(j - 1) : DistLess(row[j], row[earlier])

\* The rows of costs before the update, identity id at index id + 1.
RECURSIVE CostRows(_, _)
CostRows(dets, id) ==
    IF id >= next_object_id THEN <<>>
    ELSE <<IF id \in DOMAIN objects THEN DistanceRow(Tracker, id, dets, 1) ELSE <<>>>>
         \o CostRows(dets, id + 1)

\* The outcome of one update, judged against the rows of costs before it.
GreedyOutcome(a, matched, rows) ==
    /\ \A k \in DOMAIN a : a[k][2] = BestIn(rows[a[k][1] + 1])
    /\ \A k, l \in DOMAIN a :
           (k < l) => ~DistLess(rows[a[l][1] + 1][a[l][2]], rows[a[k][1] + 1][a[k][2]])
    /\ \A id \in DOMAIN objects \ matched :
           LET best == BestIn(rows[id + 1])
           IN WithinMaxDistance(rows[id + 1][best]) =>
                  \E k \in DOMAIN a :
                      /\ a[k][2] = best
                      /\ ~DistLess(rows[id + 1][best], rows[a[k][1] + 1][a[k][2]])
    /\ \A id \in DOMAIN objects :
           LET best == BestIn(rows[id + 1])
           IN (/\ WithinMaxDistance(rows[id + 1][best])
               /\ \A other \in DOMAIN objects \ {id} : BestIn(rows[other + 1]) # best)
              => id \in matched

\* C29: greedy order without fallback.  An update considers identities in
\* ascending order of their minimum cost over all detections, computed from
\* the state before the update, and tries each identity only against its own
\* minimum-cost detection: an identity whose best detection lies within
\* max_distance stays unmatched exactly when that detection was taken by an
\* identity of no greater minimum cost.
C29_GreedyNoFallback ==
    [][(last'.op = "update" /\ DOMAIN objects # {} /\ last'.dets # <<>>) =>
          \A rows \in {CostRows(last'.dets, 0)} :
              GreedyOutcome(last'.assigned, last'.matched, rows)]_vars

\* An identity stayed unmatched, its best detection taken by another, while
\* a detection nobody was assigned lies within max_distance of it.
C29_Witness ==
    /\ last.op = "update"
    /\ Len(last.assigned) = 1
    /\ \E id \in DOMAIN objects \ (last.matched \cup SeqRange(last.registered)) :
        /\ disappeared[id] = 1
        /\ \E j \in DOMAIN last.dets :
            /\ j # last.assigned[1][2]
            /\ WithinMaxDistance(CostBefore(id, last.dets, j))
            /\ BestDetection(id, last.dets) = last.assigned[1][2]

\* C30: disappeared-count bounds.  After every update every live identity
\* has 0 <= disappeared-count <= max_disappeared; an identity matched in the
\* update has count 0 and the centroid and size of the assigned detection;
\* an identity is deregistered only in an update in which it is not matched
\* and its count would rise above max_disappeared.
C30_DisappearedBounds ==
    [][(last'.op = "update") =>
          /\ DOMAIN disappeared' = DOMAIN objects'
          /\ \A id \in DOMAIN objects' :
                 0 <= disappeared'[id] /\ disappeared'[id] <= max_disappeared
          /\ \A k \in DOMAIN last'.assigned :
                 LET id == last'.assigned[k][1]
                     det == last'.dets[last'.assigned[k][2]]
                 IN /\ id \in DOMAIN objects'
                    /\ disappeared'[id] = 0
                    /\ objects'[id] = det[1]
                    /\ object_sizes'[id] = det[2]
          /\ \A id \in DOMAIN objects \ DOMAIN objects' :
                 /\ id \notin last'.matched
                 /\ disappeared[id] + 1 > max_disappeared]_vars

\* An update has matched an identity once more, while another identity sits
\* at the largest count the tracker tolerates.
C30_Witness ==
    /\ last.op = "update"
    /\ max_disappeared = MaxDisappeared
    /\ \E id \in last.matched : unmatched[id] = 0 /\ Len(object_history[id]) >= 2
    /\ \E id \in DOMAIN objects : disappeared[id] = max_disappeared

\* C23: detector failure is a zero-detection frame.  When the detector
\* raises during a frame, the cycle proceeds with an empty detection list:
\* tracker and counter end in the state a frame with zero detections leaves,
\* the counters unchanged, and nothing is tracked in that frame.
C23_FailureIsEmptyFrame ==
    [][(last'.op = "frame" /\ last'.raised) =>
          LET empty == frame_cycle(App, <<>>) IN
          /\ next_id' = empty.app.tracker.next_id
          /\ tracks' = empty.app.tracker.tracks
          /\ track_memory' = empty.app.counter.track_memory
          /\ track_states' = empty.app.counter.track_states
          /\ count_in' = count_in
          /\ count_out' = count_out
          /\ last'.tracked_objects = <<>>
          /\ last'.registered = <<>>]_vars

\* The detector has raised on a frame in which the network reported boxes,
\* while the tracker held a track, which aged, and a count stood.
C23_Witness ==
    /\ last.op = "frame"
    /\ last.raised
    /\ last.reported > 0
    /\ count_in + count_out > 0
    /\ \E id \in DOMAIN tracks : tracks[id].age = 1

\* C21: bounded counter memory per frame cycle.  At the end of each
\* completed frame cycle the line counter holds per-identity state only for
\* identities in the tracker's output of that frame; here for
\* EnhancedPeopleCountingSystem.process_frame, whose tracker returns its
\* live identities.
C21_CounterHoldsOnlyTracked ==
    (line_counter # <<>>) =>
        (DOMAIN line_counter[1].last_positions \subseteq DOMAIN objects)

\* Whether the box, as detect_people turns it into centroid and size, is
\* among the detections given.
AmongDetections(xyxy, dets) ==
    \E k \in DOMAIN dets :
        /\ dets[k][1] = <<IntHalf(xyxy[1] + xyxy[3]), IntHalf(xyxy[2] + xyxy[4])>>
        /\ dets[k][2] = <<xyxy[3] - xyxy[1], xyxy[4] - xyxy[2]>>

\* C24: degenerate boxes never become tracks.  A detection whose box has
\* x2 <= x1 or y2 <= y1 is dropped before the tracker update and registers
\* no identity; here for EnhancedPeopleCountingSystem.detect_people.
C24_DegenerateBoxesDropped ==
    [][(last'.op = "process_frame") =>
          /\ \A k \in DOMAIN last'.boxes :
                 LET xyxy == last'.boxes[k][3] IN
                 (xyxy[3] <= xyxy[1] \/ xyxy[4] <= xyxy[2]) =>
                     ~AmongDetections(xyxy, last'.dets)
          /\ \A id \in SeqRange(last'.registered) :
                 object_sizes'[id][1] > 0 /\ object_sizes'[id][2] > 0]_vars

\* C27: the segment-based LineCounter is equivalent to the axis-aligned
\* PeopleCounter.  For a horizontal segment at height L and a PeopleCounter
\* with direction 'horizontal' and line_position L, fed the same
\* observations with no pruning or reset, in_count = count_in and
\* out_count = count_out after every observation.
C27_CountersAgree ==
    (line_counter # <<>>) =>
        /\ line_counter[1].in_count = count_in
        /\ line_counter[1].out_count = count_out

\* C25: invalid configuration is rejected.  A non-positive max capacity,
\* given to the constructor or to a runtime mutator, is rejected and the
\* counter keeps a valid one: max_capacity >= 1 in every reachable state.
C25_CapacityAtLeastOne ==
    max_capacity >= 1

\* C22: prune ordering.  In every frame cycle cleanup_lost_tracks runs
\* immediately after the tracker update, before any other read or write of
\* counter state in that cycle, in particular before any check_crossing.
C22_PruneFollowsUpdate ==
    [][/\ (last.op = "tracker_update") => (last'.op = "cleanup_lost_tracks")
       /\ (last'.op = "check_crossing") => (last.op # "tracker_update")]_vars

\* The operations by which a reset or a configuration change takes effect.
EffectOps ==
    {"reset_counts", "update_max_capacity", "update_line_position",
     "update_direction", "update_confidence"}

\* C26: frame cycle atomicity.  A counter reset or a configuration change
\* never takes effect between the tracker update and the end of
\* counting/pruning of the same frame cycle, and two frame cycles never
\* overlap: while a cycle is in flight the only steps are its own
\* check_crossing calls and its pruning, under one configuration.
C26_CycleAtomic ==
    [][/\ (main_thread.at = "cycle") =>
             /\ last'.op \in {"check_crossing", "cleanup_lost_tracks"}
             /\ UNCHANGED <<configVars, confidence>>
       /\ (last'.op \in EffectOps) =>
             (main_thread.at = "loop" /\ main_thread'.at = "loop")
       /\ (last'.op = "tracker_update") =>
             (main_thread.at = "loop" /\ main_thread.tracked_objects = <<>>)]_vars

\* A confirmed reset has taken effect on a counter holding something, a
\* whole frame cycle having run while its confirmation dialog was open.
C26_Witness ==
    /\ last.op = "reset_counts"
    /\ last.had
    /\ main_thread.dialog = "information"
    /\ last.opened_at < frames
    /\ main_thread.at = "loop"

\* The five per-identity maps of the ImprovedTracker hold the same keys,
\* each below next_object_id.
TablesAligned ==
    /\ DOMAIN disappeared = DOMAIN objects
    /\ DOMAIN object_history = DOMAIN objects
    /\ DOMAIN object_velocities = DOMAIN objects
    /\ DOMAIN object_sizes = DOMAIN objects
    /\ \A object_id \in DOMAIN objects : object_id < next_object_id

\* C31: per-identity tables stay aligned.  After every register, deregister
\* and update the maps objects, disappeared, object_history,
\* object_velocities and object_sizes have exactly the same key set, every
\* key is smaller than next_object_id, and an identity an update removes
\* is gone from all five.
C31_TablesAligned ==
    /\ []TablesAligned
    /\ [][(last'.op = "update") =>
             \A object_id \in (DOMAIN objects) \ (DOMAIN objects') :
                 /\ object_id \notin DOMAIN disappeared'
                 /\ object_id \notin DOMAIN object_history'
                 /\ object_id \notin DOMAIN object_velocities'
                 /\ object_id \notin DOMAIN object_sizes']_vars

\* An update has removed one identity and kept another it registered later.
C31_Witness ==
    /\ last.op = "update"
    /\ \E gone \in 0..(next_object_id - 1), kept \in DOMAIN objects :
        /\ gone \notin DOMAIN objects
        /\ gone < kept

\* Every live identity has between 1 and HistoryLimit positions in its
\* history, the last of them its current centroid.
HistoryBounded ==
    \A object_id \in DOMAIN objects :
        /\ Len(object_history[object_id]) \in 1..HistoryLimit
        /\ object_history[object_id][Len(object_history[object_id])] = objects[object_id]

\* C32: bounded history.  For every live identity the position history has
\* between 1 and 10 entries after every update and ends with the
\* identity's current centroid; a match appends the new centroid after the
\* entries held before, dropping the oldest of them when they were already
\* 10, and an update that does not match the identity leaves its history
\* as it was.
C32_BoundedHistory ==
    /\ []HistoryBounded
    /\ [][(last'.op = "update") =>
             \A object_id \in (DOMAIN objects) \cap (DOMAIN objects') :
                 LET held == object_history[object_id]
                 IN object_history'[object_id] =
                        IF object_id \in last'.matched
                        THEN (IF Len(held) = HistoryLimit THEN Tail(held) ELSE held)
                             \o <<objects'[object_id]>>
                        ELSE held]_vars

\* An eleventh and a twelfth centroid have been appended to the history of
\* an identity, both different from the position it stood at before.
C32_Witness ==
    /\ last.op = "update"
    /\ 0 \in last.matched
    /\ Len(object_history[0]) = HistoryLimit
    /\ frames > HistoryLimit + 1
    /\ object_history[0][HistoryLimit - 2] = object_history[0][1]
    /\ object_history[0][HistoryLimit - 1] # object_history[0][1]
    /\ object_history[0][HistoryLimit] # object_history[0][HistoryLimit - 1]

\* p is what int() makes of num / s, for s > 0.
TruncatesTo(num, s, p) ==
    IF num >= 0
    THEN p * s <= num /\ num < (p + 1) * s
    ELSE (p - 1) * s < num /\ num <= p * s

\* The positions within the frame that are identity obj_id's centroid plus
\* velocity, each component truncated to an integer.
PredictedPositions(obj_id) ==
    LET s == Pow10(object_velocities[obj_id][3])
    IN {x \in 0..FrameShape[2] :
            TruncatesTo(objects[obj_id][1] * s + object_velocities[obj_id][1], s, x)}
       \X {y \in 0..FrameShape[1] :
            TruncatesTo(objects[obj_id][2] * s + object_velocities[obj_id][2], s, y)}

\* The velocity of identity obj_id truncates to (0, 0).
VelocityTruncatesToZero(obj_id) ==
    LET s == Pow10(object_velocities[obj_id][3])
    IN /\ TruncatesTo(object_velocities[obj_id][1], s, 0)
       /\ TruncatesTo(object_velocities[obj_id][2], s, 0)

\* The square of the Euclidean distance between two points.
SquaredDistance(a, b) ==
    (a[1] - b[1]) * (a[1] - b[1]) + (a[2] - b[2]) * (a[2] - b[2])

\* The size similarity of two sizes in lowest terms, <<1, 1>> when either
\* has no area.
SimilarAreas(size1, size2) ==
    LET area1 == size1[1] * size1[2]
        area2 == size2[1] * size2[2]
        g == GCD(area1, area2)
    IN IF area1 = 0 \/ area2 = 0 THEN <<1, 1>>
       ELSE IF area1 <= area2 THEN <<area1 \div g, area2 \div g>>
            ELSE <<area2 \div g, area1 \div g>>

\* The cost returned, squared <<num, den>>, is distance / similarity for the
\* squared distance given.
CostIsOver(cost, squared, areas) ==
    cost[1] * areas[1] * areas[1] = squared * areas[2] * areas[2] * cost[2]

\* C33 as stated: the cost is the distance from the predicted position
\* divided by the size similarity, it equals the plain distance to the last
\* centroid only when the velocity truncates to (0, 0), and it is never
\* smaller than the distance to the predicted position.
C33_CostEqualsPlainOnlyAtRest ==
    (last.op = "enhanced_distance") =>
        /\ PredictedPositions(last.obj_id) # {}
        /\ \A predicted \in PredictedPositions(last.obj_id) :
                /\ CostIsOver(ret, SquaredDistance(predicted, last.det[1]),
                              SimilarAreas(object_sizes[last.obj_id], last.det[2]))
                /\ (ret[1] = SquaredDistance(objects[last.obj_id], last.det[1]) * ret[2])
                       => VelocityTruncatesToZero(last.obj_id)
                /\ ret[1] >= SquaredDistance(predicted, last.det[1]) * ret[2]

\* C33: matching cost uses the predicted position.  The cost between an
\* identity and a detection is the Euclidean distance between (centroid +
\* velocity, each component truncated to an integer) and the detection
\* centroid, divided by the size similarity; whenever centroid + velocity
\* truncates to the centroid it is the plain distance to the last centroid
\* divided by the size similarity; and it is never smaller than the
\* Euclidean distance to the predicted position.
C33_CostUsesPrediction ==
    (last.op = "enhanced_distance") =>
        /\ PredictedPositions(last.obj_id) # {}
        /\ \A predicted \in PredictedPositions(last.obj_id) :
                /\ CostIsOver(ret, SquaredDistance(predicted, last.det[1]),
                              SimilarAreas(object_sizes[last.obj_id], last.det[2]))
                /\ (predicted = objects[last.obj_id]) =>
                       CostIsOver(ret, SquaredDistance(objects[last.obj_id], last.det[1]),
                                  SimilarAreas(object_sizes[last.obj_id], last.det[2]))
                /\ ret[1] >= SquaredDistance(predicted, last.det[1]) * ret[2]

\* The cost of a detection of another size was asked for an identity whose
\* predicted position is not its centroid.
C33_Witness ==
    /\ last.op = "enhanced_distance"
    /\ objects[last.obj_id] \notin PredictedPositions(last.obj_id)
    /\ object_sizes[last.obj_id] # last.det[2]

\* The area of a size (width, height).
AreaOf(size) == size[1] * size[2]

\* C34: size similarity range.  size_similarity(s1, s2) is symmetric in its
\* arguments, is 1 whenever either size is (0, 0) or has zero area, is
\* min(area1, area2) / max(area1, area2) otherwise, and for sizes of
\* non-negative width and height lies in (0, 1], being 1 for equal areas.
C34_SimilarityRange ==
    (last.op = "size_similarity") =>
        LET a1 == AreaOf(last.size1)
            a2 == AreaOf(last.size2)
        IN /\ ret = size_similarity(last.size2, last.size1)
           /\ (a1 = 0 \/ a2 = 0) => (ret[1] = ret[2])
           /\ (a1 # 0 /\ a2 # 0) =>
                  ret[1] * (IF a1 >= a2 THEN a1 ELSE a2)
                      = ret[2] * (IF a1 <= a2 THEN a1 ELSE a2)
           /\ 0 < ret[1]
           /\ ret[1] <= ret[2]
           /\ (a1 = a2) => (ret[1] = ret[2])

\* Two sizes of different areas were compared, the first the larger.
C34_Witness ==
    /\ last.op = "size_similarity"
    /\ AreaOf(last.size2) > 0
    /\ AreaOf(last.size1) > AreaOf(last.size2)
    /\ ret[1] < ret[2]

\* Velocity after is 0.7 * before + 0.3 * (to - from), component-wise.
SmoothedFrom(after, before, from, to) ==
    /\ after[3] <= before[3] + 1
    /\ after[1] * Pow10(before[3] + 1 - after[3])
           = 7 * before[1] + 3 * (to[1] - from[1]) * Pow10(before[3])
    /\ after[2] * Pow10(before[3] + 1 - after[3])
           = 7 * before[2] + 3 * (to[2] - from[2]) * Pow10(before[3])

\* C35: velocity smoothing.  A newly registered identity has velocity
\* (0, 0); on every successful match the new velocity is 0.7 * previous
\* velocity + 0.3 * (new centroid - centroid held before this update),
\* component-wise; in an update where the identity is not matched its
\* velocity and centroid are unchanged.
C35_VelocitySmoothing ==
    [][(last'.op = "update") =>
          /\ \A object_id \in SeqRange(last'.registered) :
                 /\ object_velocities'[object_id][1] = 0
                 /\ object_velocities'[object_id][2] = 0
          /\ \A object_id \in last'.matched :
                 SmoothedFrom(object_velocities'[object_id], object_velocities[object_id],
                              objects[object_id], objects'[object_id])
          /\ \A object_id \in ((DOMAIN objects) \cap (DOMAIN objects')) \ last'.matched :
                 /\ object_velocities'[object_id] = object_velocities[object_id]
                 /\ objects'[object_id] = objects[object_id]]_vars

\* An identity that was moving has been matched to a detection elsewhere:
\* its velocity is smoothed from a velocity that was not (0, 0).
C35_Witness ==
    /\ last.op = "update"
    /\ \E object_id \in last.matched :
        /\ Len(object_history[object_id]) = 3
        /\ object_history[object_id][1] # object_history[object_id][2]
        /\ object_history[object_id][2] # object_history[object_id][3]
        /\ object_velocities[object_id][3] = 1

\* The most detections a frame brings.
MostDetections == CHOOSE n \in DetectionCounts : \A m \in DetectionCounts : m <= n

\* What an unmatched identity still has to lose before it is removed: the
\* updates it can be aged in, then the identities that can be registered
\* before detections no longer outnumber identities.
Remaining(t, object_id) ==
    <<t.max_disappeared + 1 - t.disappeared[object_id],
      IF Cardinality(DOMAIN t.objects) >= MostDetections
      THEN 0 ELSE MostDetections - Cardinality(DOMAIN t.objects)>>

\* The tracker as the step leaves it.
TrackerAfter == [max_disappeared |-> max_disappeared',
                 next_object_id |-> next_object_id', objects |-> objects',
                 disappeared |-> disappeared', object_history |-> object_history',
                 object_velocities |-> object_velocities',
                 object_sizes |-> object_sizes']

\* C36: eventual removal.  With at most MostDetections detections per
\* frame, a live identity is in the end removed or matched again, whatever
\* the frames bring; and every update that leaves it live and unmatched
\* takes from what it has left: it is aged, or, when detections outnumbered
\* identities, the identities have grown towards MostDetections.
C36_EventualRemoval ==
    /\ \A object_id \in 0..(MaxObjects - 1) :
           (object_id \in DOMAIN objects)
               ~> \/ object_id \notin DOMAIN objects
                  \/ (last.op = "update" /\ object_id \in last.matched)
    /\ [][(last'.op = "update") =>
             \A object_id \in ((DOMAIN objects) \cap (DOMAIN objects')) \ last'.matched :
                 LET before == Remaining(Tracker, object_id)
                     after == Remaining(TrackerAfter, object_id)
                 IN \/ after[1] < before[1]
                    \/ (after[1] = before[1] /\ after[2] < before[2])]_vars

\* An identity was left unmatched and not aged by a frame whose detections
\* outnumbered the identities, and has been aged since.
C36_Witness ==
    /\ last.op = "update"
    /\ \E object_id \in (DOMAIN objects) \ last.matched :
        /\ disappeared[object_id] = 1
        /\ unmatched[object_id] = 2
        /\ last.registered = <<>>
        /\ Cardinality(DOMAIN objects) = 3

\* C37: the fallback tracker reports each identity once.  The list one
\* _update_simple call returns holds every identity at most once, whatever
\* the detections, so that check_crossing is called at most once per
\* identity per frame.
C37_EachIdentityOnce ==
    (last.op = "update_simple") =>
        \A k, l \in DOMAIN last.tracked_objects :
            (k # l) => (last.tracked_objects[k].id # last.tracked_objects[l].id)

\* The identities a list of tracked objects reports.
ReportedIds(tracked_objects) ==
    {tracked_objects[k].id : k \in DOMAIN tracked_objects}

\* The box the track of the k-th tracked object held when the k-th
\* detection was compared with it: the box of the latest earlier entry of
\* the same identity, else the box held before the call.
BoxHeldAt(tracked_objects, k) ==
    LET earlier == {j \in 1..(k - 1) : tracked_objects[j].id = tracked_objects[k].id}
    IN IF earlier = {}
       THEN tracks[tracked_objects[k].id].bbox
       ELSE tracked_objects[CHOOSE j \in earlier : \A i \in earlier : i <= j].bbox

\* C38: fallback tracker ageing.  After an _update_simple call a track
\* matched in the call has age 0, a track not matched has its age
\* increased by exactly 1, a track is deleted exactly in the call in which
\* its age rises above max_age (no live track is older than max_age), and
\* a detection is matched to a track only if their IoU is greater than 0.3.
C38_FallbackAgeing ==
    /\ [](\A track_id \in DOMAIN tracks : tracks[track_id].age \in 0..max_age)
    /\ [][(last'.op = "update_simple") =>
             LET reported == ReportedIds(last'.tracked_objects)
                 created == SeqRange(last'.registered)
                 stale == {track_id \in (DOMAIN tracks) \ reported :
                              tracks[track_id].age + 1 > max_age}
             IN /\ DOMAIN tracks' = ((DOMAIN tracks) \ stale) \cup created
                /\ \A track_id \in reported : tracks'[track_id].age = 0
                /\ \A track_id \in (DOMAIN tracks) \ (reported \cup stale) :
                       /\ tracks'[track_id].age = tracks[track_id].age + 1
                       /\ tracks'[track_id].bbox = tracks[track_id].bbox
                /\ \A k \in DOMAIN last'.tracked_objects :
                       LET obj == last'.tracked_objects[k]
                           before == {last'.tracked_objects[j].id : j \in 1..(k - 1)}
                       IN IF obj.id \in (DOMAIN tracks) \cup before
                          THEN LET overlap == calculate_overlap(
                                       obj.bbox, BoxHeldAt(last'.tracked_objects, k))
                               IN 10 * overlap[1] > 3 * overlap[2]
                          ELSE obj.id \in created]_vars

\* A track that survived max_age unmatched calls has been deleted in a call
\* that matched another track.
C38_Witness ==
    /\ last.op = "update_simple"
    /\ max_age = MaxAge
    /\ registered.simple \ (DOMAIN tracks) # {}
    /\ \E k \in DOMAIN last.tracked_objects :
           last.tracked_objects[k].id \notin SeqRange(last.registered)

\* C39: counts require movement across the line.  check_crossing
\* increments a counter only if the coordinate stored for the identity and
\* its current coordinate lie on opposite sides of the line position in
\* force at this observation; an identity observed twice at the same
\* coordinate never produces a count, also when the line position was
\* changed in between.
C39_CountsRequireMovement ==
    [][(last'.op = "check_crossing"
            /\ (count_in' # count_in \/ count_out' # count_out)) =>
          /\ last'.id \in DOMAIN track_memory
          /\ track_memory'[last'.id] # track_memory[last'.id]
          /\ (track_memory[last'.id] < line_position)
                 # (track_memory'[last'.id] < line_position)]_vars

\* The counter as the step leaves it.
SelfAfter == [line_position |-> line_position', direction |-> direction',
              count_in |-> count_in', count_out |-> count_out',
              track_memory |-> track_memory', track_states |-> track_states',
              max_capacity |-> max_capacity']

\* C40: pruning touches nothing else.  cleanup_lost_tracks(active_ids)
\* leaves count_in, count_out, line_position, direction and max_capacity
\* unchanged, leaves the stored side and position of every identity in
\* active_ids unchanged, keeps the position map and the side map with
\* identical key sets, and called again with the same argument changes
\* nothing more.
C40_PruningTouchesNothingElse ==
    [][(last'.op = "cleanup_lost_tracks") =>
          /\ UNCHANGED <<count_in, count_out, line_position, direction, max_capacity>>
          /\ \A track_id \in last'.ids \cap DOMAIN track_memory :
                 /\ track_id \in DOMAIN track_memory'
                 /\ track_memory'[track_id] = track_memory[track_id]
                 /\ track_states'[track_id] = track_states[track_id]
          /\ DOMAIN track_memory' = DOMAIN track_states'
          /\ cleanup_lost_tracks(SelfAfter, last'.ids) = SelfAfter]_vars

\* A prune has removed one identity and kept another after a crossing was
\* counted.
C40_Witness ==
    /\ last.op = "cleanup_lost_tracks"
    /\ last.ids \cap DOMAIN track_memory # {}
    /\ DOMAIN lost # {}
    /\ DOMAIN track_memory \cap DOMAIN lost = {}
    /\ count_in + count_out > 0

====
